---- MODULE Spec2Model ----
(***************************************************************************)
(* A model of the cookiecutter template materialization engine:            *)
(* generate.py (context merge, file generation), hooks.py (hook runner)    *)
(* and find.py (template locator), acting on a small file system.          *)
(*                                                                         *)
(* A path is a tuple of components, <<"out", "demo", "README.md">>.  A     *)
(* text (a file's content, a file name, a directory name) is a tuple of    *)
(* tokens; rendering replaces the variable tokens by the context's values. *)
(* Every module-level function of the source is an operator with the       *)
(* source's name that maps the file system and the arguments to an         *)
(* outcome [fs, raised, ret, ev]; one action per function calls it.        *)
(***************************************************************************)
EXTENDS Integers, Sequences, FiniteSets, TLC

VARIABLES
    fs,      \* the file system: path -> [d: is a directory, c: content]
    cwd,     \* the process-wide current working directory
    last     \* the last call: function, arguments, outcome

vars == <<fs, cwd, last>>

(***************************************************************************)
(* Bounds of the model.                                                    *)
(***************************************************************************)
\* number of distinct leaf values of the contexts that are merged
MaxVal == 2

(***************************************************************************)
(* Python values.                                                          *)
(***************************************************************************)
None == "None"

Lit(s) == [t |-> "lit", s |-> s]
Var(s) == [t |-> "var", s |-> s]
Bad == [t |-> "bad", s |-> "{{"]
Bin(s) == [t |-> "bin", s |-> s]
\* {{ cookiecutter.update({s: 'eve'}) }}: an expression that calls a method of
\* the mapping the renderer is given; it prints None
Upd(s) == [t |-> "upd", s |-> s]
UpdValue == "eve"

\* components of a path
Prefixes(p) == { SubSeq(p, 1, n) : n \in 1..Len(p) }
IsUnder(p, q) == Len(p) >= Len(q) /\ SubSeq(p, 1, Len(q)) = q
Parent(p) == SubSeq(p, 1, Len(p) - 1)

\* an entry of the file system: d, a directory; c, the content of a file;
\* x, the mode lets the file be executed
DirEntry == [d |-> TRUE, c |-> <<>>, x |-> TRUE]
FileEntry(c) == [d |-> FALSE, c |-> c, x |-> FALSE]
ExecEntry(c) == [d |-> FALSE, c |-> c, x |-> TRUE]

(***************************************************************************)
(* os and cookiecutter.utils on the file system f.                         *)
(***************************************************************************)
exists(f, p) == p \in DOMAIN f
isdir(f, p) == p \in DOMAIN f /\ f[p].d
isfile(f, p) == p \in DOMAIN f /\ ~f[p].d

\* utils.rmtree: remove the directory p and everything under it
rmtree(f, p) == [q \in { r \in DOMAIN f : ~IsUnder(r, p) } |-> f[q]]

\* utils.make_sure_path_exists: create p and its missing parents
make_sure_path_exists(f, p) ==
    [q \in DOMAIN f \cup Prefixes(p) |-> IF q \in DOMAIN f THEN f[q] ELSE DirEntry]

\* the file or directory a path names: a "." component names the directory
\* it is in
normpath(p) == SelectSeq(p, LAMBDA n : n # ".")

\* os.path.exists(p) of a path written with "." components: what it names
\* exists, and what comes before each "." is a directory
path_exists(f, p) ==
    /\ exists(f, normpath(p))
    /\ \A i \in 2..Len(p) : p[i] = "." => isdir(f, normpath(SubSeq(p, 1, i - 1)))

\* open(p, 'w').write(c), shutil.copyfile(..., p): a file that is created
\* cannot be executed, one that is written over keeps its mode
WriteFile(f, p, c) ==
    [q \in DOMAIN f \cup {p} |->
        IF q # p THEN f[q]
        ELSE IF isfile(f, p) THEN [f[p] EXCEPT !.c = c]
        ELSE FileEntry(c)]

\* os.chmod(p, os.stat(src).st_mode): p gets the mode of src
copymode(f, src, p) == [f EXCEPT ![p].x = f[src].x]

\* os.makedirs fails when a component of p exists and is not a directory
MkdirError(f, p) ==
    IF \E q \in Prefixes(p) : isfile(f, q) THEN "OSError" ELSE None

\* shutil.rmtree fails on a path that is not an existing directory
RmtreeError(f, p) ==
    IF ~exists(f, p) THEN "FileNotFoundError"
    ELSE IF ~isdir(f, p) THEN "NotADirectoryError"
    ELSE None

\* utils.work_in(d) enters d with os.chdir, which fails on a path that is not
\* an existing directory, and restores the working directory on exit
ChdirError(f, d) ==
    IF ~exists(f, d) THEN "FileNotFoundError"
    ELSE IF ~isdir(f, d) THEN "NotADirectoryError"
    ELSE None

\* utils.work_in(dirname) around a body that ended with out: the working
\* directory is changed on entry and changed back on exit, however the
\* body ended
Enter(dirname) == <<<<"chdir", dirname>>>>
Leave(dirname) == <<<<"chdir_back", dirname>>>>
work_in(dirname, out) == [out EXCEPT !.ev = Enter(dirname) \o @ \o Leave(dirname)]

\* the working directory after the events ev from the i-th on: cur is the
\* working directory and stack the directories work_in is to go back to
RECURSIVE CwdFrom(_, _, _, _)
CwdFrom(ev, i, cur, stack) ==
    IF i > Len(ev) THEN cur
    ELSE IF ev[i][1] = "chdir" THEN CwdFrom(ev, i + 1, ev[i][2], <<cur>> \o stack)
    ELSE IF ev[i][1] = "chdir_back" THEN CwdFrom(ev, i + 1, Head(stack), Tail(stack))
    ELSE CwdFrom(ev, i + 1, cur, stack)
CwdAfter(start, ev) == CwdFrom(ev, 1, start, <<>>)

\* the file cannot be opened for writing: its name is a directory, or its
\* parent is not one
WriteError(f, p) ==
    IF isdir(f, p) THEN "IsADirectoryError"
    ELSE IF ~exists(f, Parent(p)) THEN "FileNotFoundError"
    ELSE IF ~isdir(f, Parent(p)) THEN "NotADirectoryError"
    ELSE None

(***************************************************************************)
(* The template engine: env.from_string(text).render with the context.    *)
(***************************************************************************)
\* the variables cookiecutter.<name> the context defines
Defined(context) ==
    IF "cookiecutter" \in DOMAIN context THEN DOMAIN context["cookiecutter"] ELSE {}

\* from_string compiles the text: an unterminated expression is a syntax error
SyntaxOk(text) == \A i \in 1..Len(text) : text[i].t # "bad"

\* render(**context) hands the renderer the values of the context, not
\* copies of them: the context as the expressions text[1..n] leave it
RECURSIVE ContextAt(_, _, _)
ContextAt(text, context, n) ==
    IF n = 0 THEN context
    ELSE IF text[n].t = "upd" /\ "cookiecutter" \in DOMAIN ContextAt(text, context, n - 1)
        THEN [ContextAt(text, context, n - 1) EXCEPT !["cookiecutter"] =
                [k \in DOMAIN @ \cup {text[n].s} |-> IF k = text[n].s THEN UpdValue ELSE @[k]]]
    ELSE ContextAt(text, context, n - 1)

\* the i-th expression of the text renders: the strict environment raises on
\* a variable the context does not define
TokenOk(text, context, i) ==
    /\ text[i].t = "var" => text[i].s \in Defined(ContextAt(text, context, i - 1))
    /\ text[i].t = "upd" => "cookiecutter" \in DOMAIN context

RenderOk(text, context) == \A i \in 1..Len(text) : TokenOk(text, context, i)

RenderedToken(tok, context) ==
    IF tok.t = "var" THEN context["cookiecutter"][tok.s]
    ELSE IF tok.t = "upd" THEN "None"
    ELSE tok.s

\* the rendered text: every variable replaced by its value
Rendered(text, context) ==
    [i \in 1..Len(text) |-> Lit(RenderedToken(text[i], ContextAt(text, context, i - 1)))]

\* the context after env.from_string(text).render(**context): as every
\* expression left it, or as those before the first that raises left it
render_context(text, context) ==
    IF ~SyntaxOk(text) THEN context
    ELSE IF RenderOk(text, context) THEN ContextAt(text, context, Len(text))
    ELSE ContextAt(text, context,
                   (CHOOSE i \in 1..Len(text) :
                        ~TokenOk(text, context, i) /\ \A j \in 1..(i - 1) : TokenOk(text, context, j)) - 1)

\* a file or directory name as a template: one token per component
TemplatedNames ==
    [n \in {"{{cookiecutter.repo_name}}", "{{cookiecutter.missing}}"} |->
        IF n = "{{cookiecutter.repo_name}}" THEN "repo_name" ELSE "missing"]
Tok(name) == IF name \in DOMAIN TemplatedNames THEN Var(TemplatedNames[name]) ELSE Lit(name)
NameText(p) == [i \in 1..Len(p) |-> Tok(p[i])]

\* the rendered name: the components as strings
RenderedPath(p, context) ==
    [i \in 1..Len(p) |-> RenderedToken(Tok(p[i]), context)]

\* the outcome of rendering: the exception raised, or None
RenderError(text, context) ==
    IF ~SyntaxOk(text) THEN "TemplateSyntaxError"
    ELSE IF ~RenderOk(text, context) THEN "UndefinedError"
    ELSE None

(***************************************************************************)
(* Outcomes of a call.                                                     *)
(***************************************************************************)
\* fs: the file system the call leaves; raised: the exception that reaches the
\* caller (None: a normal return); arg: what the exception carries (a path, a
\* file name, a message); ret: the value returned; ev: what the call did, in
\* order (directories made and removed, files written, subprocesses started)
Outcome(f, raised, arg, ret, ev) ==
    [fs |-> f, raised |-> raised, arg |-> arg, ret |-> ret, ev |-> ev]
Returns(f, ret, ev) == Outcome(f, None, <<>>, ret, ev)
Raises(f, exc, arg, ev) == Outcome(f, exc, arg, <<>>, ev)

(***************************************************************************)
(* The fixtures: template repositories the calls are given, and the output *)
(* location out/.  The code never writes into a template repository.       *)
(***************************************************************************)
\* os.path.splitext(name): the base name and the extension
splitext(n) ==
    CASE n = "cookiecutter.json" -> <<"cookiecutter", ".json">>
      [] n = "README.md" -> <<"README", ".md">>
      [] n = "undef.txt" -> <<"undef", ".txt">>
      [] n = "setup.txt" -> <<"setup", ".txt">>
      [] n = "bad.md" -> <<"bad", ".md">>
      [] n = "logo.png" -> <<"logo", ".png">>
      [] n = "pre_gen_project.sh" -> <<"pre_gen_project", ".sh">>
      [] n = "pre_gen_project.py" -> <<"pre_gen_project", ".py">>
      [] n = "post_gen_project.py" -> <<"post_gen_project", ".py">>
      [] n = "pre_gen_project_old.sh" -> <<"pre_gen_project_old", ".sh">>
      [] n = "pre_prompt.sh" -> <<"pre_prompt", ".sh">>
      [] n = "pre_prompt.py" -> <<"pre_prompt", ".py">>
      [] n = "empty.sh" -> <<"empty", ".sh">>
      [] n = "_notes.md" -> <<"_notes", ".md">>
      [] n = "{{cookiecutter.repo_name}}" -> <<"{{cookiecutter", ".repo_name}}">>
      [] n = "{{cookiecutter.missing}}" -> <<"{{cookiecutter", ".missing}}">>
      [] n = "hook.sh" -> <<"hook", ".sh">>
      [] n = "hook.py" -> <<"hook", ".py">>
      [] OTHER -> <<n, "">>

\* name[0]: the first character of a name
FirstChar(n) ==
    IF n \in {".git", ".gitignore"} THEN "."
    ELSE IF n \in {"_build", "_cookiecutter", "_notes.md"} THEN "_"
    ELSE "a"

\* the names in the directory d
Names(f, d) == { p[Len(p)] : p \in { q \in DOMAIN f : Len(q) = Len(d) + 1 /\ Parent(q) = d } }

\* the sequences that hold every element of S once
RECURSIVE PermSeqs(_)
PermSeqs(S) ==
    IF S = {} THEN {<<>>}
    ELSE UNION { { <<x>> \o p : p \in PermSeqs(S \ {x}) } : x \in S }

\* the order a directory listing comes in is not specified.  A call is
\* given a listing: for each directory it can list, the names of the
\* directory in the order the file system lists them in.  Listings(f, dirs)
\* are all the listings of the directories dirs
RECURSIVE Listings(_, _)
Listings(f, dirs) ==
    IF dirs = {} THEN {<<>>}
    ELSE LET d == CHOOSE e \in dirs : TRUE
         IN { (d :> p) @@ l : p \in PermSeqs(Names(f, d)), l \in Listings(f, dirs \ {d}) }

\* the directories at or under top, which a walk of top can come to list
DirsUnder(f, top) == { d \in DOMAIN f : f[d].d /\ IsUnder(d, top) }

\* the directories find_hook can come to list for hook_name in wd
HookDirs(wd, hook_name) == { wd \o <<"hooks">>, wd \o <<"hooks", hook_name>> }

\* the listing of a call that lists no directory
NoListing == <<>>

\* os.listdir(d), os.walk: the names in d, in the order the listing has them
listdir(f, order, d) == SelectSeq(order[d], LAMBDA n : exists(f, d \o <<n>>))

ReadmeText == <<Lit("# "), Var("repo_name"), Lit(" by "), Var("author")>>
UndefText == <<Lit("by "), Var("missing")>>
BadText == <<Lit("x"), Bad>>
PngBytes == <<Bin("PNG"), Var("missing")>>
FailScript == <<Lit("exit 1")>>
OkScript == <<Lit("exit 0")>>
OldText == <<Lit("old")>>
SetupText == <<Upd("author"), Lit(" by "), Var("author")>>
SetupScript == <<Upd("license"), Lit("exit 0")>>

\* tpl/: a template root with text files, a file that references an undefined
\* variable, one with a syntax error, a binary file, a templated directory,
\* hook scripts, and directories the walk prunes
TemplateFiles ==
    { <<<<"tpl", "cookiecutter.json">>, <<Lit("{}")>>>>,
      <<<<"tpl", "README.md">>, ReadmeText>>,
      <<<<"tpl", "undef.txt">>, UndefText>>,
      <<<<"tpl", "bad.md">>, BadText>>,
      <<<<"tpl", "logo.png">>, PngBytes>>,
      <<<<"tpl", "{{cookiecutter.repo_name}}", "README.md">>, ReadmeText>>,
      <<<<"tpl", "hooks", "pre_gen_project.sh">>, FailScript>>,
      <<<<"tpl", "hooks", "post_gen_project.py">>, OkScript>>,
      <<<<"tpl", "hooks", "pre_prompt.sh">>, FailScript>>,
      <<<<"tpl", ".git", "config">>, <<Lit("[core]")>>>>,
      <<<<"tpl", "_build", "README.md">>, ReadmeText>>,
      \* good/: a template every file of which renders
      <<<<"good", "cookiecutter.json">>, <<Lit("{}")>>>>,
      <<<<"good", "README.md">>, ReadmeText>>,
      <<<<"good", "{{cookiecutter.repo_name}}", "README.md">>, ReadmeText>>,
      \* hooked/: a template every file of which renders, with hook scripts
      \* that succeed
      <<<<"hooked", "cookiecutter.json">>, <<Lit("{}")>>>>,
      <<<<"hooked", "README.md">>, ReadmeText>>,
      <<<<"hooked", "hooks", "pre_gen_project.py">>, OkScript>>,
      <<<<"hooked", "hooks", "post_gen_project.py">>, OkScript>>,
      <<<<"hooked", "hooks", "pre_prompt.py">>, OkScript>>,
      \* mixed/: a template every file of which renders, with files and
      \* directories whose names start with "." and "_" at its top and below
      <<<<"mixed", "cookiecutter.json">>, <<Lit("{}")>>>>,
      <<<<"mixed", ".gitignore">>, <<Lit("*.pyc")>>>>,
      <<<<"mixed", "_build", "hooks", "pre_gen_project.sh">>, OkScript>>,
      <<<<"mixed", "demo2", "README.md">>, ReadmeText>>,
      <<<<"mixed", "demo2", "_notes.md">>, ReadmeText>>,
      <<<<"mixed", "demo2", ".git", "config">>, <<Lit("[core]")>>>>,
      \* raw/: a template with a file that references an undefined variable
      \* and a binary file
      <<<<"raw", "cookiecutter.json">>, <<Lit("{}")>>>>,
      <<<<"raw", "undef.txt">>, UndefText>>,
      <<<<"raw", "logo.png">>, PngBytes>>,
      \* live/: a template with expressions that call update on the
      \* mapping of the variables, in a file and in a hook script
      <<<<"live", "cookiecutter.json">>, <<Lit("{}")>>>>,
      <<<<"live", "setup.txt">>, SetupText>>,
      <<<<"live", "README.md">>, ReadmeText>>,
      <<<<"live", "hooks", "pre_gen_project.sh">>, SetupScript>>,
      \* bare/: a directory with no variable-definition file and no hooks
      <<<<"bare", "README.md">>, ReadmeText>>,
      \* a script that is an empty file
      <<<<"bare", "empty.sh">>, <<>>>> }

\* a file of a template repository: its scripts are checked in with a mode
\* that lets them be executed
FixtureEntry(p, c) ==
    IF splitext(p[Len(p)])[2] \in {".sh", ".py"} THEN ExecEntry(c) ELSE FileEntry(c)

FixtureFs ==
    LET files == { tf[1] : tf \in TemplateFiles }
        dirs == UNION { Prefixes(Parent(p)) : p \in files } \cup {<<"out">>}
    IN [p \in files \cup dirs |->
            IF p \in dirs THEN DirEntry
            ELSE FixtureEntry(p, (CHOOSE tf \in TemplateFiles : tf[1] = p)[2])]

\* the contexts the calls are given
CtxA ==
    [cookiecutter |->
        [repo_name |-> "demo", author |-> "ann", _template |-> "{{cookiecutter.repo_name}}"]]
CtxB ==
    [cookiecutter |->
        [repo_name |-> "demo", author |-> "bob", _template |-> "{{cookiecutter.repo_name}}"]]

\* contexts with a copy-without-render list: by extension, and by the name
\* of one file
CtxCopyExt ==
    [cookiecutter |->
        [repo_name |-> "demo", author |-> "ann", _template |-> "{{cookiecutter.repo_name}}",
         _copy_without_render |-> <<"*.txt", "*.md">>]]
CtxCopyName ==
    [cookiecutter |->
        [repo_name |-> "demo", author |-> "ann", _template |-> "{{cookiecutter.repo_name}}",
         _copy_without_render |-> <<"undef.txt">>]]

OutputDir == <<"out">>
ProjectDir == <<"out", "demo">>

(***************************************************************************)
(* generate.py                                                             *)
(***************************************************************************)
\* fnmatch.fnmatch(path, pattern): "*" matches every path, "*<ext>" a path
\* that ends in <ext>, any other pattern the path that equals it
PatternExt ==
    [pat \in {"*.txt", "*.md", "*.png"} |->
        IF pat = "*.txt" THEN ".txt" ELSE IF pat = "*.md" THEN ".md" ELSE ".png"]

fnmatch(path, pattern) ==
    IF pattern = "*" THEN TRUE
    ELSE IF pattern \in DOMAIN PatternExt
        THEN splitext(path[Len(path)])[2] = PatternExt[pattern]
    ELSE Len(path) = 1 /\ path[1] = pattern

\* is_copy_only_path with no pattern ever matching
is_copy_only_path_never(path, context) == FALSE

is_copy_only_path(path, context) ==
    IF "cookiecutter" \notin DOMAIN context THEN FALSE
    ELSE LET copy_without_render ==
                IF "_copy_without_render" \in DOMAIN context["cookiecutter"]
                THEN context["cookiecutter"]["_copy_without_render"] ELSE <<>>
         IN \E i \in 1..Len(copy_without_render) : fnmatch(path, copy_without_render[i])

\* binaryornot.check.is_binary: content sniffing
is_binary(content) == \E i \in 1..Len(content) : content[i].t = "bin"

\* the context after generate_file: the renderer is given the content of the
\* file when the file is neither skipped nor copied as it is
generate_file_context(f, wd, project_dir, infile, context, skip_if_file_exists) ==
    LET outfile == RenderedPath(infile, context)
        outfile_path == normpath(project_dir \o outfile)
        parent_dir == Parent(outfile_path)
        src == normpath(wd \o infile)
    IN  IF RenderError(NameText(infile), context) # None THEN context
        ELSE IF skip_if_file_exists /\ exists(f, outfile_path) THEN context
        ELSE IF ~path_exists(f, Parent(project_dir \o outfile)) /\ MkdirError(f, parent_dir) # None THEN context
        ELSE IF ~isfile(f, src) THEN context
        ELSE IF is_binary(f[src].c) \/ is_copy_only_path(infile, context) THEN context
        ELSE render_context(f[src].c, context)

\* generate_file without the test of lines 109-113 for a file that exists
generate_file_no_skip(f, wd, project_dir, infile, context, skip_if_file_exists) ==
    LET name_err == RenderError(NameText(infile), context)
        outfile == RenderedPath(infile, context)
        outfile_path == normpath(project_dir \o outfile)
        parent_dir == Parent(outfile_path)
        src == normpath(wd \o infile)
        f1 == IF ~path_exists(f, Parent(project_dir \o outfile)) THEN make_sure_path_exists(f, parent_dir) ELSE f
        ev1 == IF ~path_exists(f, Parent(project_dir \o outfile)) THEN <<<<"mkdir", parent_dir>>>> ELSE <<>>
        written(c) ==
            IF WriteError(f1, outfile_path) # None
            THEN Raises(f1, WriteError(f1, outfile_path), outfile_path, ev1)
            ELSE Returns(WriteFile(f1, outfile_path, c), <<project_dir \o outfile>>,
                         ev1 \o <<<<"write", outfile_path>>>>)
    IN  IF name_err # None THEN Raises(f, name_err, infile, <<>>)
        ELSE IF ~path_exists(f, Parent(project_dir \o outfile)) /\ MkdirError(f, parent_dir) # None
            THEN Raises(f, MkdirError(f, parent_dir), parent_dir, <<>>)
        ELSE IF ~isfile(f, src)
            THEN Raises(f1, IF isdir(f, src) THEN "IsADirectoryError" ELSE "FileNotFoundError",
                        src, ev1)
        ELSE IF is_binary(f[src].c) \/ is_copy_only_path(infile, context)
            THEN written(f[src].c)
        ELSE IF ~SyntaxOk(f[src].c) THEN Raises(f1, "TemplateSyntaxError", infile, ev1)
        ELSE IF ~RenderOk(f[src].c, context)
            THEN Raises(f1, "UndefinedVariableInTemplate", outfile, ev1)
        ELSE written(Rendered(f[src].c, context))

\* generate_file, called with the template root wd as the working directory
generate_file(f, wd, project_dir, infile, context, skip_if_file_exists) ==
    LET name_err == RenderError(NameText(infile), context)
        outfile == RenderedPath(infile, context)
        outfile_path == normpath(project_dir \o outfile)
        parent_dir == Parent(outfile_path)
        src == normpath(wd \o infile)
        f1 == IF ~path_exists(f, Parent(project_dir \o outfile)) THEN make_sure_path_exists(f, parent_dir) ELSE f
        ev1 == IF ~path_exists(f, Parent(project_dir \o outfile)) THEN <<<<"mkdir", parent_dir>>>> ELSE <<>>
        written(c) ==
            IF WriteError(f1, outfile_path) # None
            THEN Raises(f1, WriteError(f1, outfile_path), outfile_path, ev1)
            ELSE Returns(WriteFile(f1, outfile_path, c), <<project_dir \o outfile>>,
                         ev1 \o <<<<"write", outfile_path>>>>)
    IN  IF name_err # None THEN Raises(f, name_err, infile, <<>>)
        ELSE IF skip_if_file_exists /\ exists(f, outfile_path) THEN Returns(f, <<>>, <<>>)
        ELSE IF ~path_exists(f, Parent(project_dir \o outfile)) /\ MkdirError(f, parent_dir) # None
            THEN Raises(f, MkdirError(f, parent_dir), parent_dir, <<>>)
        ELSE IF ~isfile(f, src)
            THEN Raises(f1, IF isdir(f, src) THEN "IsADirectoryError" ELSE "FileNotFoundError",
                        src, ev1)
        ELSE IF is_binary(f[src].c) \/ is_copy_only_path(infile, context)
            THEN written(f[src].c)
        ELSE IF ~SyntaxOk(f[src].c) THEN Raises(f1, "TemplateSyntaxError", infile, ev1)
        ELSE IF ~RenderOk(f[src].c, context)
            THEN Raises(f1, "UndefinedVariableInTemplate", outfile, ev1)
        ELSE written(Rendered(f[src].c, context))

\* render_and_create_dir that removes an existing directory whether or not
\* overwrite_if_exists is set
render_and_create_dir_always_rmtree(f, dirname, context, output_dir, overwrite_if_exists) ==
    LET name_err == RenderError(NameText(<<dirname>>), context)
        dir_to_create == output_dir \o RenderedPath(<<dirname>>, context)
        g == IF exists(f, dir_to_create) THEN rmtree(f, dir_to_create) ELSE f
    IN  IF name_err # None THEN Raises(f, name_err, <<dirname>>, <<>>)
        ELSE IF exists(f, dir_to_create) /\ RmtreeError(f, dir_to_create) # None
            THEN Raises(f, RmtreeError(f, dir_to_create), dir_to_create, <<>>)
        ELSE IF MkdirError(g, dir_to_create) # None
            THEN Raises(g, MkdirError(g, dir_to_create), dir_to_create, <<>>)
        ELSE Returns(make_sure_path_exists(g, dir_to_create), dir_to_create,
                     <<<<"mkdir", dir_to_create>>>>)

\* render_and_create_dir without the rmtree of line 162: an existing
\* directory is kept as it is when overwrite_if_exists is set
render_and_create_dir_no_rmtree(f, dirname, context, output_dir, overwrite_if_exists) ==
    LET name_err == RenderError(NameText(<<dirname>>), context)
        dir_to_create == output_dir \o RenderedPath(<<dirname>>, context)
    IN  IF name_err # None THEN Raises(f, name_err, <<dirname>>, <<>>)
        ELSE IF exists(f, dir_to_create) /\ ~overwrite_if_exists
            THEN Raises(f, "OutputDirExistsException", dir_to_create, <<>>)
        ELSE IF MkdirError(f, dir_to_create) # None
            THEN Raises(f, MkdirError(f, dir_to_create), dir_to_create, <<>>)
        ELSE Returns(make_sure_path_exists(f, dir_to_create), dir_to_create,
                     <<<<"mkdir", dir_to_create>>>>)

render_and_create_dir(f, dirname, context, output_dir, overwrite_if_exists) ==
    LET name_err == RenderError(NameText(<<dirname>>), context)
        dir_to_create == output_dir \o RenderedPath(<<dirname>>, context)
        made(g, ev) ==
            IF MkdirError(g, dir_to_create) # None
            THEN Raises(g, MkdirError(g, dir_to_create), dir_to_create, ev)
            ELSE Returns(make_sure_path_exists(g, dir_to_create), dir_to_create,
                         ev \o <<<<"mkdir", dir_to_create>>>>)
    IN  IF name_err # None THEN Raises(f, name_err, <<dirname>>, <<>>)
        ELSE IF exists(f, dir_to_create) THEN
            IF overwrite_if_exists THEN
                IF RmtreeError(f, dir_to_create) # None
                THEN Raises(f, RmtreeError(f, dir_to_create), dir_to_create, <<>>)
                ELSE made(rmtree(f, dir_to_create), <<<<"rmtree", dir_to_create>>>>)
            ELSE Raises(f, "OutputDirExistsException", dir_to_create, <<>>)
        ELSE made(f, <<>>)

(***************************************************************************)
(* hooks.py                                                                *)
(***************************************************************************)
EXIT_SUCCESS == 0

\* the first element of hits, as a sequence of length <= 1: the element a
\* loop over hits returns at
First(hits) == IF hits = <<>> THEN <<>> ELSE <<hits[1]>>

\* valid_hook without the comparison of the names
valid_hook_isfile_only(f, hook_file, hook_name) == isfile(f, hook_file)

valid_hook(f, hook_file, hook_name) ==
    LET filename == hook_file[Len(hook_file)]
        basename == splitext(filename)[1]
    IN hook_name = basename /\ isfile(f, hook_file)

\* find_hook with wd as the working directory; ret is <<>> for None, or
\* <<path>>
find_hook(f, order, wd, hook_name) ==
    LET hooks_dir == wd \o <<"hooks">>
        hook_dir_candidates ==
            <<hooks_dir>> \o
            (IF exists(f, wd \o <<"cookiecutter.json">>)
             THEN <<hooks_dir \o <<hook_name>>>> ELSE <<>>)
        found(candidate) ==
            LET names == listdir(f, order, candidate)
                hook_paths == [i \in 1..Len(names) |-> candidate \o <<names[i]>>]
            IN First(SelectSeq(hook_paths, LAMBDA hook_path : valid_hook(f, hook_path, hook_name)))
        scanned == SelectSeq(hook_dir_candidates, LAMBDA c : exists(f, c))
        \* os.listdir of a candidate that is a file raises, unless an earlier
        \* candidate already returned
        firstbad == First(SelectSeq(scanned, LAMBDA c : ~isdir(f, c) \/ found(c) # <<>>))
    IN  IF ~exists(f, hooks_dir) THEN [raised |-> None, ret |-> <<>>]
        ELSE IF firstbad = <<>> THEN [raised |-> None, ret |-> <<>>]
        ELSE IF ~isdir(f, firstbad[1]) THEN [raised |-> "NotADirectoryError", ret |-> <<>>]
        ELSE [raised |-> None, ret |-> found(firstbad[1])]

\* the exit status of the subprocess that runs a script
ExitStatus(content) ==
    IF \E i \in 1..Len(content) : content[i].s = "exit 1" THEN 1 ELSE EXIT_SUCCESS

run_script(f, script_path, cwd_arg) ==
    LET is_py == splitext(script_path[Len(script_path)])[2] = ".py"
        started == <<<<"run", script_path>>>>
    IN  IF ChdirError(f, cwd_arg) # None
            THEN Raises(f, "FailedHookException", <<"error">>, <<>>)
        \* Popen of a file that may not be executed: an OSError other than
        \* ENOEXEC, and no process
        ELSE IF ~is_py /\ ~f[script_path].x
            THEN Raises(f, "FailedHookException", <<"error">>, <<>>)
        ELSE IF ~is_py /\ f[script_path].c = <<>>
            THEN Raises(f, "FailedHookException", <<"empty or invalid script">>, <<>>)
        ELSE IF ExitStatus(f[script_path].c) # EXIT_SUCCESS
            THEN Raises(f, "FailedHookException", <<"exit status", ToString(ExitStatus(f[script_path].c))>>, started)
        ELSE Returns(f, <<>>, started)

\* utils.create_tmp_repo_dir: a freshly created temporary directory
TmpDir == <<"tmp", "hook">>

\* run_script_with_context without the finally clause: the temporary
\* directory is removed only when run_script returns
run_script_with_context_no_finally(f, script_path, cwd_arg, context) ==
    LET extension == splitext(script_path[Len(script_path)])[2]
        contents == f[script_path].c
        temp_dir == TmpDir
        temp_script == temp_dir \o <<"hook" \o extension>>
        f1 == copymode(WriteFile(make_sure_path_exists(f, temp_dir), temp_script,
                                 Rendered(contents, context)),
                       script_path, temp_script)
        ran == run_script(f1, temp_script, cwd_arg)
        ev == <<<<"script", script_path>>, <<"mkdir", temp_dir>>, <<"write", temp_script>>>>
                \o ran.ev
    IN  IF ~SyntaxOk(contents) THEN Raises(f, "TemplateSyntaxError", script_path, <<>>)
        ELSE IF ~RenderOk(contents, context) THEN Raises(f, "UndefinedError", script_path, <<>>)
        ELSE IF ran.raised # None THEN Outcome(ran.fs, ran.raised, ran.arg, ran.ret, ev)
        ELSE Outcome(rmtree(ran.fs, temp_dir), ran.raised, ran.arg, ran.ret,
                     ev \o <<<<"rmtree", temp_dir>>>>)

run_script_with_context(f, script_path, cwd_arg, context) ==
    LET extension == splitext(script_path[Len(script_path)])[2]
        contents == f[script_path].c
        temp_dir == TmpDir
        temp_script == temp_dir \o <<"hook" \o extension>>
        f1 == copymode(WriteFile(make_sure_path_exists(f, temp_dir), temp_script,
                                 Rendered(contents, context)),
                       script_path, temp_script)
        ran == run_script(f1, temp_script, cwd_arg)
        ev == <<<<"script", script_path>>, <<"mkdir", temp_dir>>, <<"write", temp_script>>>>
                \o ran.ev \o <<<<"rmtree", temp_dir>>>>
    IN  IF ~SyntaxOk(contents) THEN Raises(f, "TemplateSyntaxError", script_path, <<>>)
        ELSE IF ~RenderOk(contents, context) THEN Raises(f, "UndefinedError", script_path, <<>>)
        ELSE Outcome(rmtree(ran.fs, temp_dir), ran.raised, ran.arg, ran.ret, ev)

\* the context after run_script_with_context: the renderer is given the
\* content of the script
run_script_with_context_context(f, script_path, cwd_arg, context) ==
    render_context(f[script_path].c, context)

\* run_hook with os.chdir(project_dir) in place of work_in(project_dir)
run_hook_chdir(f, order, hook_name, project_dir, context) ==
    LET hook_path == find_hook(f, order, project_dir, hook_name)
        body == IF hook_path.raised # None THEN Raises(f, hook_path.raised, project_dir, <<>>)
                ELSE IF hook_path.ret # <<>>
                    THEN run_script_with_context(f, hook_path.ret[1], project_dir, context)
                ELSE Returns(f, <<>>, <<>>)
    IN  IF ChdirError(f, project_dir) # None
            THEN Raises(f, ChdirError(f, project_dir), project_dir, <<>>)
        ELSE [body EXCEPT !.ev = Enter(project_dir) \o @]

run_hook(f, order, hook_name, project_dir, context) ==
    LET hook_path == find_hook(f, order, project_dir, hook_name)
        body == IF hook_path.raised # None THEN Raises(f, hook_path.raised, project_dir, <<>>)
                ELSE IF hook_path.ret # <<>>
                    THEN run_script_with_context(f, hook_path.ret[1], project_dir, context)
                ELSE Returns(f, <<>>, <<>>)
    IN  IF ChdirError(f, project_dir) # None
            THEN Raises(f, ChdirError(f, project_dir), project_dir, <<>>)
        ELSE work_in(project_dir, body)

\* the except clause without the test of delete_project_on_failure: the
\* project directory is removed on every failure
HookFailed_always_deletes(out, project_dir, delete_project_on_failure) ==
    IF RmtreeError(out.fs, project_dir) # None
        THEN Raises(out.fs, RmtreeError(out.fs, project_dir), project_dir, out.ev)
    ELSE Raises(rmtree(out.fs, project_dir), out.raised, out.arg,
                out.ev \o <<<<"rmtree", project_dir>>>>)

\* the except clause of run_hook_from_repo_dir and _run_hook_from_repo_dir:
\* clean the project directory, then re-raise
HookFailed(out, project_dir, delete_project_on_failure) ==
    IF ~delete_project_on_failure THEN out
    ELSE IF RmtreeError(out.fs, project_dir) # None
        THEN Raises(out.fs, RmtreeError(out.fs, project_dir), project_dir, out.ev)
    ELSE Raises(rmtree(out.fs, project_dir), out.raised, out.arg,
                out.ev \o <<<<"rmtree", project_dir>>>>)

run_hook_from_repo_dir(f, order, repo_dir, hook_name, project_dir, context, delete_project_on_failure) ==
    LET ran == run_hook(f, order, hook_name, project_dir, context)
    IN  IF ChdirError(f, repo_dir) # None
            THEN Raises(f, ChdirError(f, repo_dir), repo_dir, <<>>)
        ELSE IF ran.raised # None
            THEN work_in(repo_dir, HookFailed(ran, project_dir, delete_project_on_failure))
        ELSE work_in(repo_dir, ran)

\* utils.create_tmp_repo_dir as run_pre_prompt_hook calls it: the temporary
\* directory the pre_prompt hook runs in
PrePromptDir == <<"tmp", "pre_prompt">>

\* run_pre_prompt_hook without the except clause: the temporary directory
\* stays when the hook fails
run_pre_prompt_hook_no_cleanup(f, order, repo_dir) ==
    LET temp_dir == PrePromptDir
        f1 == make_sure_path_exists(f, temp_dir)
        made == <<<<"mkdir", temp_dir>>>>
        hook_path == find_hook(f1, order, repo_dir, "pre_prompt")
        ran == run_script(f1, hook_path.ret[1], temp_dir)
    IN  IF ChdirError(f1, repo_dir) # None
            THEN Raises(f1, ChdirError(f1, repo_dir), repo_dir, made)
        ELSE IF hook_path.raised # None
            THEN Raises(f1, hook_path.raised, repo_dir,
                        made \o Enter(repo_dir) \o Leave(repo_dir))
        ELSE IF hook_path.ret = <<>>
            THEN Returns(f1, temp_dir, made \o Enter(repo_dir) \o Leave(repo_dir))
        ELSE IF ran.raised # None
            THEN Raises(ran.fs, ran.raised, ran.arg,
                        made \o Enter(repo_dir) \o ran.ev \o Leave(repo_dir))
        ELSE Returns(ran.fs, temp_dir, made \o Enter(repo_dir) \o ran.ev \o Leave(repo_dir))

run_pre_prompt_hook(f, order, repo_dir) ==
    LET temp_dir == PrePromptDir
        f1 == make_sure_path_exists(f, temp_dir)
        made == <<<<"mkdir", temp_dir>>>>
        hook_path == find_hook(f1, order, repo_dir, "pre_prompt")
        ran == run_script(f1, hook_path.ret[1], temp_dir)
        failed(out) ==
            Raises(rmtree(out.fs, temp_dir), out.raised, out.arg,
                   out.ev \o <<<<"rmtree", temp_dir>>>>)
    IN  IF ChdirError(f1, repo_dir) # None
            THEN failed(Raises(f1, ChdirError(f1, repo_dir), repo_dir, made))
        ELSE IF hook_path.raised # None
            THEN failed(Raises(f1, hook_path.raised, repo_dir,
                               made \o Enter(repo_dir) \o Leave(repo_dir)))
        ELSE IF hook_path.ret = <<>>
            THEN Returns(f1, temp_dir, made \o Enter(repo_dir) \o Leave(repo_dir))
        ELSE IF ran.raised # None
            THEN failed(Raises(ran.fs, ran.raised, ran.arg,
                               made \o Enter(repo_dir) \o ran.ev \o Leave(repo_dir)))
        ELSE Returns(ran.fs, temp_dir, made \o Enter(repo_dir) \o ran.ev \o Leave(repo_dir))

(***************************************************************************)
(* find.py                                                                 *)
(***************************************************************************)
EmptyContext == [x \in {} |-> x]

\* find_template with a scan of the subdirectories that does not skip the
\* hidden ones
find_template_hidden(f, order, repo_dir) ==
    LET has(d) == exists(f, d \o <<"cookiecutter.json">>)
        names == listdir(f, order, repo_dir)
        rendered_path(n) ==
            IF RenderError(NameText(<<n>>), EmptyContext) = None
            THEN repo_dir \o RenderedPath(<<n>>, EmptyContext) ELSE repo_dir \o <<n>>
        hit(n) == isdir(f, repo_dir \o <<n>>)
                  /\ (has(rendered_path(n)) \/ has(repo_dir \o <<n>>))
        first == First(SelectSeq(names, hit))
    IN  IF has(repo_dir) THEN Returns(f, repo_dir, <<>>)
        ELSE IF has(repo_dir \o <<"_cookiecutter">>)
            THEN Returns(f, repo_dir \o <<"_cookiecutter">>, <<>>)
        ELSE IF has(repo_dir \o <<"cookiecutter">>)
            THEN Returns(f, repo_dir \o <<"cookiecutter">>, <<>>)
        ELSE IF ChdirError(f, repo_dir) # None
            THEN Raises(f, ChdirError(f, repo_dir), repo_dir, <<>>)
        ELSE IF first # <<>>
            THEN Returns(f, IF has(rendered_path(first[1])) THEN rendered_path(first[1])
                            ELSE repo_dir \o <<first[1]>>, <<>>)
        ELSE Raises(f, "NonTemplatedInputDirException", <<>>, <<>>)

find_template(f, order, repo_dir) ==
    LET has(d) == exists(f, d \o <<"cookiecutter.json">>)
        names == listdir(f, order, repo_dir)
        \* the directory name rendered against no context, when it renders
        rendered_path(n) ==
            IF RenderError(NameText(<<n>>), EmptyContext) = None
            THEN repo_dir \o RenderedPath(<<n>>, EmptyContext) ELSE repo_dir \o <<n>>
        hit(n) == isdir(f, repo_dir \o <<n>>) /\ FirstChar(n) # "."
                  /\ (has(rendered_path(n)) \/ has(repo_dir \o <<n>>))
        first == First(SelectSeq(names, hit))
    IN  IF has(repo_dir) THEN Returns(f, repo_dir, <<>>)
        ELSE IF has(repo_dir \o <<"_cookiecutter">>)
            THEN Returns(f, repo_dir \o <<"_cookiecutter">>, <<>>)
        ELSE IF has(repo_dir \o <<"cookiecutter">>)
            THEN Returns(f, repo_dir \o <<"cookiecutter">>, <<>>)
        ELSE IF ChdirError(f, repo_dir) # None
            THEN Raises(f, ChdirError(f, repo_dir), repo_dir, <<>>)
        ELSE IF first # <<>>
            THEN Returns(f, IF has(rendered_path(first[1])) THEN rendered_path(first[1])
                            ELSE repo_dir \o <<first[1]>>, <<>>)
        ELSE Raises(f, "NonTemplatedInputDirException", <<>>, <<>>)

(***************************************************************************)
(* generate.py: the hook wrapper and generate_files                        *)
(***************************************************************************)
\* the required parameters of the functions generate.py calls
\* def find_template(repo_dir, env)
find_template_params == {"repo_dir", "env"}
\* def run_hook_from_repo_dir(repo_dir, hook_name, project_dir, context,
\*                            delete_project_on_failure)
run_hook_from_repo_dir_params ==
    {"repo_dir", "hook_name", "project_dir", "context", "delete_project_on_failure"}

\* a Python call that leaves a required parameter unbound raises TypeError
\* before the function's body runs
Unbound(params, given) == params \ given

\* _run_hook_from_repo_dir of generate.py: it calls hooks.run_hook_from_repo_dir
\* with the keywords project_dir, hook_name and context only
_run_hook_from_repo_dir(f, order, repo_dir, hook_name, project_dir, context, delete_project_on_failure) ==
    LET given == {"project_dir", "hook_name", "context"}
        called ==
            IF Unbound(run_hook_from_repo_dir_params, given) # {}
            THEN Raises(f, "TypeError", <<"run_hook_from_repo_dir() missing arguments">>, <<>>)
            ELSE run_hook(f, order, hook_name, project_dir, context)
    IN  IF ChdirError(f, repo_dir) # None
            THEN Raises(f, ChdirError(f, repo_dir), repo_dir, <<>>)
        ELSE IF called.raised # None
            THEN work_in(repo_dir, HookFailed(called, project_dir, delete_project_on_failure))
        ELSE work_in(repo_dir, called)

RECURSIVE WalkFiles(_, _, _, _)
RECURSIVE WalkDirs(_, _, _, _, _, _)

\* a walk that leaves nothing out
WalkFiles_all(f, order, top, root) ==
    LET names == listdir(f, order, top \o root)
        files == SelectSeq(names, LAMBDA n : ~isdir(f, top \o root \o <<n>>))
        dirs == SelectSeq(names, LAMBDA n : isdir(f, top \o root \o <<n>>))
    IN [i \in 1..Len(files) |-> root \o <<files[i]>>] \o WalkDirs(f, order, top, root, dirs, 1)

\* os.walk(top), top-down: the files it presents, relative to top, with the
\* directories and files whose name starts with "." or "_" left out
WalkFiles(f, order, top, root) ==
    LET names == listdir(f, order, top \o root)
        kept(n) == FirstChar(n) \notin {".", "_"}
        files == SelectSeq(names, LAMBDA n : ~isdir(f, top \o root \o <<n>>) /\ kept(n))
        dirs == SelectSeq(names, LAMBDA n : isdir(f, top \o root \o <<n>>) /\ kept(n))
    IN [i \in 1..Len(files) |-> root \o <<files[i]>>] \o WalkDirs(f, order, top, root, dirs, 1)

WalkDirs(f, order, top, root, dirs, i) ==
    IF i > Len(dirs) THEN <<>>
    ELSE WalkFiles(f, order, top, root \o <<dirs[i]>>) \o WalkDirs(f, order, top, root, dirs, i + 1)

\* the sequences of files os.walk(top) can present: one for every listing
\* of the directories under top
Walks(f, top) == { WalkFiles(f, order, top, <<>>) : order \in Listings(f, DirsUnder(f, top)) }

\* the loop of generate_files over the files of the walk, from the i-th on
RECURSIVE GenerateWalk(_, _, _, _, _, _, _, _, _)
GenerateWalk(f, wd, infiles, i, project_dir, context, skip_if_file_exists, keep_project_on_failure, ev) ==
    IF i > Len(infiles) THEN Returns(f, <<>>, ev)
    ELSE LET g == generate_file(f, wd, project_dir, <<".">> \o infiles[i], context,
                                skip_if_file_exists)
         IN IF g.raised = "UndefinedVariableInTemplate" THEN
                IF keep_project_on_failure THEN Raises(g.fs, g.raised, g.arg, ev \o g.ev)
                ELSE IF RmtreeError(g.fs, project_dir) # None
                    THEN Raises(g.fs, RmtreeError(g.fs, project_dir), project_dir, ev \o g.ev)
                ELSE Raises(rmtree(g.fs, project_dir), g.raised, g.arg,
                            ev \o g.ev \o <<<<"rmtree", project_dir>>>>)
            ELSE IF g.raised # None THEN Raises(g.fs, g.raised, g.arg, ev \o g.ev)
            ELSE GenerateWalk(g.fs, wd, infiles, i + 1, project_dir,
                              generate_file_context(f, wd, project_dir, <<".">> \o infiles[i],
                                                    context, skip_if_file_exists),
                              skip_if_file_exists, keep_project_on_failure, ev \o g.ev)

\* the context after the loop of generate_files: every file is rendered with
\* the context as the files before it left it
RECURSIVE GenerateWalk_context(_, _, _, _, _, _, _)
GenerateWalk_context(f, wd, infiles, i, project_dir, context, skip_if_file_exists) ==
    IF i > Len(infiles) THEN context
    ELSE LET g == generate_file(f, wd, project_dir, <<".">> \o infiles[i], context,
                                skip_if_file_exists)
             after == generate_file_context(f, wd, project_dir, <<".">> \o infiles[i], context,
                                            skip_if_file_exists)
         IN IF g.raised # None THEN after
            ELSE GenerateWalk_context(g.fs, wd, infiles, i + 1, project_dir, after,
                                      skip_if_file_exists)

\* generate_files from line 216 on, given the template directory that
\* find_template returned, one operator per stage; each stage is given the
\* outcomes of the stages before it

\* the hooks of generate_files, run when hooks are accepted
GenHook(f, order, repo_dir, hook_name, project_dir, context, accept_hooks, keep_project_on_failure) ==
    IF accept_hooks
    THEN _run_hook_from_repo_dir(f, order, repo_dir, hook_name, project_dir, context,
                                 ~keep_project_on_failure)
    ELSE Returns(f, <<>>, <<>>)

\* lines 264-273: the post_gen_project hook has run
GenPostRan(walked, post, project_dir) ==
    IF post.raised # None THEN Raises(post.fs, post.raised, post.arg, walked.ev \o post.ev)
    ELSE Returns(post.fs, project_dir, walked.ev \o post.ev)

\* lines 239-262: the walk has ended
GenWalked(walked, order, repo_dir, project_dir, context, accept_hooks, keep_project_on_failure) ==
    IF walked.raised # None THEN walked
    ELSE GenPostRan(walked,
                    GenHook(walked.fs, order, repo_dir, "post_gen_project", project_dir, context,
                            accept_hooks, keep_project_on_failure),
                    project_dir)

\* lines 230-237: the pre_gen_project hook has run
GenPreRan(made, pre, order, template_dir, repo_dir, context, skip_if_file_exists, accept_hooks, keep_project_on_failure) ==
    IF pre.raised # None THEN Raises(pre.fs, pre.raised, pre.arg, made.ev \o pre.ev)
    ELSE GenWalked(GenerateWalk(pre.fs, template_dir, WalkFiles(pre.fs, order, template_dir, <<>>),
                                1, made.ret, context, skip_if_file_exists,
                                keep_project_on_failure, made.ev \o pre.ev),
                   order, repo_dir, made.ret, context, accept_hooks, keep_project_on_failure)

\* lines 217-229: the project directory has been rendered and created
GenCreated(made, order, template_dir, repo_dir, context, skip_if_file_exists, accept_hooks, keep_project_on_failure) ==
    IF made.raised # None THEN made
    ELSE IF ChdirError(made.fs, template_dir) # None
        THEN Raises(made.fs, ChdirError(made.fs, template_dir), template_dir, made.ev)
    ELSE [GenPreRan([made EXCEPT !.ev = @ \o Enter(template_dir)],
                    GenHook(made.fs, order, repo_dir, "pre_gen_project", made.ret, context,
                            accept_hooks, keep_project_on_failure),
                    order, template_dir, repo_dir, context, skip_if_file_exists, accept_hooks,
                    keep_project_on_failure)
          EXCEPT !.ev = @ \o Leave(template_dir)]

GenerateFrom(f, order, template_dir, repo_dir, context, output_dir, overwrite_if_exists, skip_if_file_exists, accept_hooks, keep_project_on_failure) ==
    IF "cookiecutter" \notin DOMAIN context
        THEN Raises(f, "KeyError", <<"cookiecutter">>, <<>>)
    ELSE IF "_template" \notin DOMAIN context["cookiecutter"]
        THEN Raises(f, "KeyError", <<"_template">>, <<>>)
    ELSE GenCreated(render_and_create_dir(f, context["cookiecutter"]["_template"], context,
                                          output_dir, overwrite_if_exists),
                    order, template_dir, repo_dir, context, skip_if_file_exists, accept_hooks,
                    keep_project_on_failure)

\* generate_files: line 213 calls find_template(repo_dir), with one argument
generate_files(f, order, repo_dir, context, output_dir, overwrite_if_exists, skip_if_file_exists, accept_hooks, keep_project_on_failure) ==
    LET given == {"repo_dir"}
        found == find_template(f, order, repo_dir)
    IN  IF Unbound(find_template_params, given) # {}
            THEN Raises(f, "TypeError", <<"find_template() missing argument: env">>, <<>>)
        ELSE IF found.raised # None THEN found
        ELSE GenerateFrom(f, order, found.ret, repo_dir, context, output_dir, overwrite_if_exists,
                          skip_if_file_exists, accept_hooks, keep_project_on_failure)

(***************************************************************************)
(* generate.py: the context                                                *)
(***************************************************************************)
\* JSON values: a string, or a mapping of keys to values; a mapping lists
\* its keys in the order of KeyOrder
Str(s) == [k |-> "str", v |-> s]
Dict(m) == [k |-> "dict", v |-> m]
KeyOrder == <<"a", "b", "x", "y">>
TopKeys == {"a", "b"}
NestedKeys == {"x", "y"}
Strs == { Str("v" \o ToString(i)) : i \in 1..MaxVal }
Mappings(keys, vals) == UNION { [ks -> vals] : ks \in SUBSET keys }
Values == Strs \cup { Dict(m) : m \in Mappings(NestedKeys, Strs) }
\* the mappings given as default_context and extra_context
ContextDicts == Mappings(TopKeys, Values)

Put(context, key, value) ==
    [q \in DOMAIN context \cup {key} |-> IF q = key THEN value ELSE context[q]]

\* apply_overwrites_to_context from the i-th key of overwrite_context on:
\* the exception raised, and the context as the call leaves it
RECURSIVE ApplyFrom(_, _, _)
ApplyFrom(context, overwrite_context, i) ==
    IF i > Len(KeyOrder) THEN [raised |-> None, context |-> context]
    ELSE IF KeyOrder[i] \notin DOMAIN overwrite_context
        THEN ApplyFrom(context, overwrite_context, i + 1)
    ELSE LET key == KeyOrder[i]
             value == overwrite_context[key]
             c1 == IF key \notin DOMAIN context THEN Put(context, key, Dict(<<>>)) ELSE context
             sub == IF c1[key].k = "dict" THEN ApplyFrom(c1[key].v, value.v, 1)
                    \* context[key] is a string: assigning an item to it raises
                    ELSE IF DOMAIN value.v = {} THEN [raised |-> None, context |-> <<>>]
                    ELSE [raised |-> "TypeError", context |-> <<>>]
         IN IF value.k = "dict" THEN
                IF c1[key].k # "dict" THEN
                    IF sub.raised # None THEN [raised |-> sub.raised, context |-> c1]
                    ELSE ApplyFrom(c1, overwrite_context, i + 1)
                ELSE IF sub.raised # None
                    THEN [raised |-> sub.raised, context |-> Put(c1, key, Dict(sub.context))]
                ELSE ApplyFrom(Put(c1, key, Dict(sub.context)), overwrite_context, i + 1)
            ELSE ApplyFrom(Put(context, key, value), overwrite_context, i + 1)

\* apply_overwrites_to_context with the recursion under an else: a mapping
\* that overrides an absent key leaves an empty mapping behind
RECURSIVE ApplyFrom_else(_, _, _)
ApplyFrom_else(context, overwrite_context, i) ==
    IF i > Len(KeyOrder) THEN [raised |-> None, context |-> context]
    ELSE IF KeyOrder[i] \notin DOMAIN overwrite_context
        THEN ApplyFrom_else(context, overwrite_context, i + 1)
    ELSE LET key == KeyOrder[i]
             value == overwrite_context[key]
         IN IF value.k = "dict" /\ key \notin DOMAIN context
            THEN ApplyFrom_else(Put(context, key, Dict(<<>>)), overwrite_context, i + 1)
            ELSE LET one == ApplyFrom(context, [q \in {key} |-> value], 1)
                 IN IF one.raised # None THEN one
                    ELSE ApplyFrom_else(one.context, overwrite_context, i + 1)

apply_overwrites_to_context_else(context, overwrite_context) ==
    ApplyFrom_else(context, overwrite_context, 1)

apply_overwrites_to_context(context, overwrite_context) ==
    ApplyFrom(context, overwrite_context, 1)

\* json.load of the variable-definition files of the fixtures
JsonDocs == {"{}", "{a: v1}", "{a: {x: v1, y: v2}, b: v2}", "{a: "}
JsonLoad(doc) ==
    CASE doc = "{}" -> [raised |-> None, obj |-> <<>>]
      [] doc = "{a: v1}" -> [raised |-> None, obj |-> [a |-> Str("v1")]]
      [] doc = "{a: {x: v1, y: v2}, b: v2}" ->
            [raised |-> None,
             obj |-> [a |-> Dict([x |-> Str("v1"), y |-> Str("v2")]), b |-> Str("v2")]]
      [] OTHER -> [raised |-> "ValueError", obj |-> <<>>]

\* generate_context on a variable-definition file that holds doc
generate_context(doc, default_context, extra_context) ==
    LET loaded == JsonLoad(doc)
        defaulted ==
            IF DOMAIN default_context # {}
            THEN apply_overwrites_to_context(loaded.obj, default_context)
            ELSE [raised |-> None, context |-> loaded.obj]
        overridden ==
            IF DOMAIN extra_context # {}
            THEN apply_overwrites_to_context(defaulted.context, extra_context)
            ELSE defaulted
    IN  IF loaded.raised # None
            THEN [raised |-> "ContextDecodingException", ret |-> <<>>]
        ELSE IF defaulted.raised # None THEN [raised |-> defaulted.raised, ret |-> <<>>]
        ELSE IF overridden.raised # None THEN [raised |-> overridden.raised, ret |-> <<>>]
        ELSE [raised |-> None, ret |-> [cookiecutter |-> overridden.context]]

(***************************************************************************)
(* replay.py                                                               *)
(***************************************************************************)
\* JSON text: a sequence of tokens, a string or a punctuation mark each
JStr(x) == [t |-> "string", s |-> x]
JPunct(x) == [t |-> "punct", s |-> x]
\* the keys of a mapping in the order json.dump writes them
JsonKeyOrder == <<"cookiecutter">> \o KeyOrder

\* json.dump: the text of a value
RECURSIVE JsonDump(_)
RECURSIVE JsonDumpMembers(_, _, _)
JsonDumpMembers(m, i, first) ==
    IF i > Len(JsonKeyOrder) THEN <<>>
    ELSE IF JsonKeyOrder[i] \notin DOMAIN m THEN JsonDumpMembers(m, i + 1, first)
    ELSE (IF first THEN <<>> ELSE <<JPunct(",")>>)
         \o <<JStr(JsonKeyOrder[i]), JPunct(":")>> \o JsonDump(m[JsonKeyOrder[i]])
         \o JsonDumpMembers(m, i + 1, FALSE)

JsonDump(value) ==
    IF value.k = "str" THEN <<JStr(value.v)>>
    ELSE <<JPunct("{")>> \o JsonDumpMembers(value.v, 1, TRUE) \o <<JPunct("}")>>

\* json.load: the value of a text from its i-th token on, and the position
\* after it; ok is FALSE where the text is not JSON (JSONDecodeError)
JsonFail == [ok |-> FALSE, v |-> Str(""), next |-> 0]
RECURSIVE JsonParseValue(_, _)
RECURSIVE JsonParseMembers(_, _, _)
JsonParseMembers(toks, i, acc) ==
    IF i + 1 > Len(toks) \/ toks[i].t # "string" \/ toks[i + 1] # JPunct(":") THEN JsonFail
    ELSE LET r == JsonParseValue(toks, i + 2)
         IN IF ~r.ok \/ r.next > Len(toks) THEN JsonFail
            ELSE IF toks[r.next] = JPunct(",")
                THEN JsonParseMembers(toks, r.next + 1, Put(acc, toks[i].s, r.v))
            ELSE IF toks[r.next] = JPunct("}")
                THEN [ok |-> TRUE, v |-> Dict(Put(acc, toks[i].s, r.v)), next |-> r.next + 1]
            ELSE JsonFail

JsonParseValue(toks, i) ==
    IF i > Len(toks) THEN JsonFail
    ELSE IF toks[i].t = "string" THEN [ok |-> TRUE, v |-> Str(toks[i].s), next |-> i + 1]
    ELSE IF toks[i] # JPunct("{") THEN JsonFail
    ELSE IF i + 1 <= Len(toks) /\ toks[i + 1] = JPunct("}")
        THEN [ok |-> TRUE, v |-> Dict(<<>>), next |-> i + 2]
    ELSE JsonParseMembers(toks, i + 1, <<>>)

\* the truth value Python gives a JSON value: an empty mapping and an empty
\* string are false
Truthy(value) == IF value.k = "dict" THEN DOMAIN value.v # {} ELSE value.v # ""

\* a template name is the sequence of the parts its "/" separate;
\* str.endswith('.json') on a part
EndsWithJson(part) == part \in {"demo.json", "empty.json", ".json"}
AddJson(part) ==
    CASE part = "demo" -> "demo.json"
      [] part = "other" -> "other.json"
      [] part = "empty" -> "empty.json"
      [] part = "" -> ".json"
      [] OTHER -> part

\* get_file_name with one file for every template name
get_file_name_single(replay_dir, template_name) ==
    replay_dir \o <<".json">>

get_file_name(replay_dir, template_name) ==
    LET file_name == template_name[Len(template_name)]
    IN  replay_dir \o <<IF EndsWithJson(file_name) THEN file_name ELSE AddJson(file_name)>>

\* dump that names the file after the last part of the template name as it
\* is, without get_file_name
dump_raw_name(f, replay_dir, template_name, context) ==
    LET replay_file == replay_dir \o <<template_name[Len(template_name)]>>
        made == make_sure_path_exists(f, replay_dir)
    IN  IF context.k # "dict" THEN Raises(f, "TypeError", <<"Context is required to be of type dict">>, <<>>)
        ELSE IF ~Truthy(context) THEN Raises(f, "ValueError", <<"Context is required to not be empty">>, <<>>)
        ELSE IF MkdirError(f, replay_dir) # None THEN Raises(f, MkdirError(f, replay_dir), replay_dir, <<>>)
        ELSE Returns(WriteFile(made, replay_file, JsonDump(context)), <<>>, <<<<"mkdir", replay_dir>>, <<"write", replay_file>>>>)

\* dump: template_name is a str in every call of the model
dump(f, replay_dir, template_name, context) ==
    LET replay_file == get_file_name(replay_dir, template_name)
        made == make_sure_path_exists(f, replay_dir)
    IN  IF context.k # "dict" THEN Raises(f, "TypeError", <<"Context is required to be of type dict">>, <<>>)
        ELSE IF ~Truthy(context) THEN Raises(f, "ValueError", <<"Context is required to not be empty">>, <<>>)
        ELSE IF MkdirError(f, replay_dir) # None THEN Raises(f, MkdirError(f, replay_dir), replay_dir, <<>>)
        ELSE IF WriteError(made, replay_file) # None THEN Raises(made, WriteError(made, replay_file), replay_file, <<<<"mkdir", replay_dir>>>>)
        ELSE Returns(WriteFile(made, replay_file, JsonDump(context)), <<>>, <<<<"mkdir", replay_dir>>, <<"write", replay_file>>>>)

\* load without the test for an empty context
load_unchecked(f, replay_dir, template_name) ==
    LET replay_file == get_file_name(replay_dir, template_name)
        parsed == JsonParseValue(f[replay_file].c, 1)
    IN  IF ~exists(f, replay_file) THEN Raises(f, "OSError", replay_file, <<>>)
        ELSE IF ~parsed.ok THEN Raises(f, "JSONDecodeError", replay_file, <<>>)
        ELSE Returns(f, parsed.v, <<>>)

load(f, replay_dir, template_name) ==
    LET replay_file == get_file_name(replay_dir, template_name)
        parsed == JsonParseValue(f[replay_file].c, 1)
    \* IOError is OSError
    IN  IF ~exists(f, replay_file) THEN Raises(f, "OSError", replay_file, <<>>)
        ELSE IF isdir(f, replay_file) THEN Raises(f, "IsADirectoryError", replay_file, <<>>)
        ELSE IF ~parsed.ok \/ parsed.next # Len(f[replay_file].c) + 1 THEN Raises(f, "JSONDecodeError", replay_file, <<>>)
        ELSE IF ~Truthy(parsed.v) THEN Raises(f, "ValueError", <<"Context is required to not be empty">>, <<>>)
        ELSE Returns(f, parsed.v, <<>>)

(***************************************************************************)
(* prompt.py                                                               *)
(***************************************************************************)
\* the values of a variable-definition file as prompt_for_config meets
\* them: a string (a template text), a list of options, a boolean, a mapping
PStr(text) == [k |-> "str", v |-> text]
PList(options) == [k |-> "list", v |-> options]
PBool(b) == [k |-> "bool", v |-> b]
PDict(m) == [k |-> "dict", v |-> m]
\* json.dumps(default_value): the text rich returns when the user accepts
\* the default of read_user_dict
PJson(m) == [k |-> "json", v |-> m]
\* {{cookiecutter.<name>.lower()}}
Lower(name) == [t |-> "lower", s |-> name]
\* str.lower on the values of the fixtures
LowerOf(x) == IF x = "Peanut Butter" THEN "peanut butter" ELSE x

\* cookiecutter_dict is an ordered mapping: a sequence of keys with values
Entry(key, val) == [key |-> key, val |-> val]
PKeys(d) == { d[i].key : i \in 1..Len(d) }
PGet(d, key) == d[CHOOSE i \in 1..Len(d) : d[i].key = key].val
PSet(d, i, val) == [d EXCEPT ![i] = Entry(d[i].key, val)]

\* template.render(**cookiecutter_dict): the names of cookiecutter.<name>
\* that resolve, with the keys of cookiecutter_dict as the top-level names
PromptDefined(d) ==
    IF "cookiecutter" \in PKeys(d) /\ PGet(d, "cookiecutter").k = "dict"
    THEN DOMAIN PGet(d, "cookiecutter").v ELSE {}

PromptRenderOk(text, d) ==
    \A i \in 1..Len(text) : text[i].t \in {"var", "lower"} => text[i].s \in PromptDefined(d)

PromptRenderedToken(tok, d) ==
    IF tok.t = "var" THEN PGet(d, "cookiecutter").v[tok.s]
    ELSE IF tok.t = "lower" THEN LowerOf(PGet(d, "cookiecutter").v[tok.s])
    ELSE tok.s

\* render_variable: the value, or the exception of from_string and render
render_variable(raw, cookiecutter_dict) ==
    IF raw.k # "str" THEN [raised |-> None, val |-> raw]
    ELSE IF ~SyntaxOk(raw.v) THEN [raised |-> "TemplateSyntaxError", val |-> raw]
    ELSE IF ~PromptRenderOk(raw.v, cookiecutter_dict) THEN [raised |-> "UndefinedError", val |-> raw]
    ELSE [raised |-> None,
          val |-> PStr([i \in 1..Len(raw.v) |-> Lit(PromptRenderedToken(raw.v[i], cookiecutter_dict))])]

\* the answer of the user to a prompt: "default" accepts the default,
\* "other" gives another valid answer
read_user_variable(default_value, answer) ==
    IF answer = "default" THEN default_value ELSE PStr(<<Lit("typed")>>)

read_user_yes_no(default_value, answer) ==
    IF answer = "default" THEN default_value ELSE PBool(~default_value.v)

read_user_choice(options, answer) ==
    IF options = <<>> THEN [raised |-> "ValueError", val |-> PList(options), ev |-> <<>>]
    ELSE [raised |-> None,
          val |-> IF answer = "default" THEN options[1] ELSE options[Len(options)],
          ev |-> <<"ask">>]

read_user_dict(default_value, answer) ==
    IF answer = "default" THEN PJson(default_value.v) ELSE PDict([typed |-> "typed"])

\* prompt_choice_for_config: no_input is not looked at
prompt_choice_for_config(cookiecutter_dict, options, no_input, answer) ==
    LET rendered == [i \in 1..Len(options) |-> render_variable(options[i], cookiecutter_dict)]
        failed == { i \in 1..Len(options) : rendered[i].raised # None }
        first == CHOOSE i \in failed : \A j \in failed : i <= j
    IN  IF failed # {} THEN [raised |-> rendered[first].raised, val |-> PList(options), ev |-> <<>>]
        ELSE read_user_choice([i \in 1..Len(options) |-> rendered[i].val], answer)

\* the loop without the test for the private prefix
IsPrivate_never(key) == FALSE

\* str.startswith('_') on the keys of the fixtures
IsPrivate(key) == key \in {"_private", "_template"}

\* the body of the loop with an except clause that keeps the raw value and
\* goes on to the next key
PromptOne_swallow(cookiecutter_dict, key, raw, no_input, answer) ==
    LET chosen == prompt_choice_for_config(cookiecutter_dict, raw.v, no_input, answer)
        val == render_variable(raw, cookiecutter_dict)
        kept == [raised |-> None, val |-> raw, ev |-> <<>>]
    IN  IF raw.k = "list" THEN (IF chosen.raised # None THEN kept ELSE chosen)
        ELSE IF raw.k = "bool"
            THEN IF no_input THEN kept
                 ELSE [raised |-> None, val |-> read_user_yes_no(raw, answer), ev |-> <<"ask">>]
        ELSE IF raw.k = "dict"
            THEN IF no_input THEN kept
                 ELSE [raised |-> None, val |-> read_user_dict(raw, answer), ev |-> <<"ask">>]
        ELSE IF val.raised # None THEN kept
        ELSE IF no_input THEN [raised |-> None, val |-> val.val, ev |-> <<>>]
        ELSE [raised |-> None, val |-> read_user_variable(val.val, answer), ev |-> <<"ask">>]

\* the body of the loop of prompt_for_config for one key that is not
\* private: the value, the prompts made, and the exception that leaves the
\* try statement
PromptOne(cookiecutter_dict, key, raw, no_input, answer) ==
    LET chosen == prompt_choice_for_config(cookiecutter_dict, raw.v, no_input, answer)
        val == render_variable(raw, cookiecutter_dict)
        done(r) ==
            IF r.raised = "UndefinedError"
            THEN [raised |-> "UndefinedVariableInTemplate", val |-> raw, ev |-> <<>>]
            ELSE r
    IN  IF raw.k = "list" THEN done(chosen)
        ELSE IF raw.k = "bool"
            THEN IF no_input THEN [raised |-> None, val |-> raw, ev |-> <<>>]
                 ELSE [raised |-> None, val |-> read_user_yes_no(raw, answer), ev |-> <<"ask">>]
        ELSE IF raw.k = "dict"
            THEN IF no_input THEN [raised |-> None, val |-> raw, ev |-> <<>>]
                 ELSE [raised |-> None, val |-> read_user_dict(raw, answer), ev |-> <<"ask">>]
        ELSE IF val.raised # None THEN done([raised |-> val.raised, val |-> raw, ev |-> <<>>])
        ELSE IF no_input THEN [raised |-> None, val |-> val.val, ev |-> <<>>]
        ELSE [raised |-> None, val |-> read_user_variable(val.val, answer), ev |-> <<"ask">>]

\* the loop of prompt_for_config from the i-th key on; cookiecutter_dict is
\* modified in place, and ret is that mapping as the call leaves it
RECURSIVE PromptFrom(_, _, _, _, _)
PromptFrom(cookiecutter_dict, i, no_input, answer, ev) ==
    IF i > Len(cookiecutter_dict)
        THEN [raised |-> None, arg |-> <<>>, ret |-> cookiecutter_dict, ev |-> ev]
    ELSE IF IsPrivate(cookiecutter_dict[i].key)
        THEN PromptFrom(cookiecutter_dict, i + 1, no_input, answer, ev)
    ELSE LET one == PromptOne(cookiecutter_dict, cookiecutter_dict[i].key,
                              cookiecutter_dict[i].val, no_input, answer)
             asked == [j \in 1..Len(one.ev) |-> <<"ask", cookiecutter_dict[i].key>>]
         IN IF one.raised # None
            THEN [raised |-> one.raised,
                  \* UndefinedVariableInTemplate carries the key
                  arg |-> IF one.raised = "UndefinedVariableInTemplate"
                          THEN <<cookiecutter_dict[i].key>> ELSE <<>>,
                  ret |-> cookiecutter_dict, ev |-> ev \o asked]
            ELSE PromptFrom(PSet(cookiecutter_dict, i, one.val), i + 1, no_input, answer,
                            ev \o asked)

prompt_for_config(cookiecutter_dict, no_input, answer) ==
    PromptFrom(cookiecutter_dict, 1, no_input, answer, <<>>)

(***************************************************************************)
(* prompt.py: choose_nested_template                                       *)
(***************************************************************************)
\* a dict whose order matters: a sequence of keys with values
PMapping(entries) == [k |-> "dict", v |-> entries]

\* prompt_choice_for_template that asks whatever no_input is
prompt_choice_for_template_asks(key, options, no_input, answer) ==
    IF options = <<>> THEN [raised |-> "IndexError", val |-> PMapping(options), ev |-> <<>>]
    ELSE [raised |-> None,
          val |-> IF answer = "default" THEN options[1].val ELSE options[Len(options)].val,
          ev |-> <<<<"ask", key>>>>]

\* prompt_choice_for_template, where the user would accept the default,
\* the first choice, or choose the last one
prompt_choice_for_template(key, options, no_input, answer) ==
    IF no_input
        THEN IF options = <<>>
             THEN [raised |-> "StopIteration", val |-> PMapping(options), ev |-> <<>>]
             ELSE [raised |-> None, val |-> options[1].val, ev |-> <<>>]
    ELSE IF options = <<>> THEN [raised |-> "IndexError", val |-> PMapping(options), ev |-> <<>>]
    ELSE [raised |-> None,
          val |-> IF answer = "default" THEN options[1].val ELSE options[Len(options)].val,
          ev |-> <<<<"ask", key>>>>]

\* choose_nested_template on cookiecutter_dict, the value of
\* context['cookiecutter']; ret is that mapping as the call left it
choose_nested_template(cookiecutter_dict, no_input, answer) ==
    LET i == CHOOSE j \in 1..Len(cookiecutter_dict) : cookiecutter_dict[j].key = "_template"
        template_dir == cookiecutter_dict[i].val
        chosen == prompt_choice_for_template("_template", template_dir.v, no_input, answer)
        unchanged(ev) == [raised |-> None, arg |-> <<>>, ret |-> cookiecutter_dict, ev |-> ev]
    IN  IF "_template" \notin PKeys(cookiecutter_dict) THEN unchanged(<<>>)
        ELSE IF template_dir.k # "dict" THEN unchanged(<<>>)
        ELSE IF chosen.raised # None
            THEN [raised |-> chosen.raised, arg |-> <<>>, ret |-> cookiecutter_dict,
                  ev |-> chosen.ev]
        ELSE IF chosen.val.k # "str" THEN unchanged(chosen.ev)
        ELSE [raised |-> None, arg |-> <<>>,
              ret |-> PSet(cookiecutter_dict, i, chosen.val), ev |-> chosen.ev]

(***************************************************************************)
(* prompt.py: prompt_and_delete; vcs.py; zipfile.py                        *)
(***************************************************************************)
\* prompt_and_delete that reports a deletion when the user chose to re-use
prompt_and_delete_reuse_true(f, path, no_input, ok_to_delete, ok_to_reuse) ==
    LET asked == <<<<"ask", "delete", path>>>>
    IN  IF no_input \/ ok_to_delete
            THEN IF RmtreeError(f, path) # None
                 THEN Raises(f, RmtreeError(f, path), path, asked)
                 ELSE Returns(rmtree(f, path), TRUE, asked \o <<<<"rmtree", path>>>>)
        ELSE IF ok_to_reuse
            THEN Returns(f, TRUE, asked \o <<<<"ask", "reuse", path>>>>)
        ELSE Raises(f, "SystemExit", <<>>, asked \o <<<<"ask", "reuse", path>>>>)

\* prompt_and_delete, where the user would answer ok_to_delete and
\* ok_to_reuse to the two questions
prompt_and_delete(f, path, no_input, ok_to_delete, ok_to_reuse) ==
    LET asked == <<<<"ask", "delete", path>>>>
    IN  IF no_input
            THEN IF RmtreeError(f, path) # None
                 THEN Raises(f, RmtreeError(f, path), path, <<>>)
                 ELSE Returns(rmtree(f, path), TRUE, <<<<"rmtree", path>>>>)
        ELSE IF ok_to_delete
            THEN IF RmtreeError(f, path) # None
                 THEN Raises(f, RmtreeError(f, path), path, asked)
                 ELSE Returns(rmtree(f, path), TRUE, asked \o <<<<"rmtree", path>>>>)
        ELSE IF ok_to_reuse
            THEN Returns(f, FALSE, asked \o <<<<"ask", "reuse", path>>>>)
        ELSE Raises(f, "SystemExit", <<>>, asked \o <<<<"ask", "reuse", path>>>>)

\* a repository URL by its parts: the prefix "git+" or "hg+" if any, the
\* host, whether it has the form user@host:path, the components of its
\* path and the suffix ".git" or ".hg" of the last of them if any
RepoUrl(prefix, host, ssh, path, suffix) ==
    [prefix |-> prefix, host |-> host, ssh |-> ssh, path |-> path, suffix |-> suffix]

\* lines 78-88 of clone: the name of the repository is what follows the
\* last ":" of a URL of the form user@host:path, the last "/" of any other,
\* without the suffix
RepoName(url) == IF url.ssh THEN url.path ELSE <<url.path[Len(url.path)]>>

\* identify_repo: <<repo type, URL without its prefix>>, or <<>> where it
\* raises UnknownRepoType
identify_repo(repo_url) ==
    IF repo_url.prefix = "git+" THEN <<"git", [repo_url EXCEPT !.prefix = ""]>>
    ELSE IF repo_url.prefix = "hg+" THEN <<"hg", [repo_url EXCEPT !.prefix = ""]>>
    ELSE IF repo_url.host \in {"github.com", "gitlab.com", "gitorious.org"}
        THEN <<"git", repo_url>>
    ELSE IF repo_url.host = "bitbucket.org"
        THEN IF repo_url.suffix = ".git" THEN <<"git", repo_url>> ELSE <<"hg", repo_url>>
    ELSE IF repo_url.suffix = ".git" THEN <<"git", repo_url>>
    ELSE IF repo_url.suffix = ".hg" THEN <<"hg", repo_url>>
    ELSE IF repo_url.ssh THEN <<"git", repo_url>>
    ELSE <<>>

\* what the clone of a repository puts into its directory
FreshRepo(f, repo_dir) ==
    WriteFile(make_sure_path_exists(f, repo_dir), repo_dir \o <<"cookiecutter.json">>,
              <<Lit("fresh")>>)

\* lines 90-98 of clone: what is done about a repo_dir that exists
CloneCached(f, repo_dir, no_input, ok_to_delete, ok_to_reuse) ==
    IF ~exists(f, repo_dir) THEN Returns(f, TRUE, <<>>)
    ELSE IF no_input THEN Returns(rmtree(f, repo_dir), TRUE, <<<<"rm", repo_dir>>>>)
    ELSE prompt_and_delete(f, repo_dir, FALSE, ok_to_delete, ok_to_reuse)

\* what a clone command that fails leaves: it has made the directories
\* above repo_dir, which are more than clone_to_dir when the name of the
\* repository has a "/", and has removed what it put in repo_dir
FailedClone(f, repo_dir) == make_sure_path_exists(f, Parent(repo_dir))

\* lines 100-149 of clone: the clone and the checkout, where fetched is how
\* the clone command ends and checked_out whether the checkout succeeds
CloneFetch(f, ev, repo_type, url, repo_dir, checkout, fetched, checked_out) ==
    LET cloned == ev \o <<<<"clone", url>>>>
    IN  IF fetched = "not found"
            THEN Raises(FailedClone(f, repo_dir), "RepositoryNotFound", <<url>>, cloned)
        ELSE IF fetched = "failed"
            THEN Raises(FailedClone(f, repo_dir), "RepositoryCloneFailed", <<url>>, cloned)
        ELSE IF checkout = <<>> THEN Returns(FreshRepo(f, repo_dir), repo_dir, cloned)
        ELSE IF ~checked_out
            THEN Raises(FreshRepo(f, repo_dir), "RepositoryCloneFailed", checkout,
                        cloned \o <<<<"checkout", checkout[1]>>>>)
        ELSE Returns(FreshRepo(f, repo_dir), repo_dir, cloned \o <<<<"checkout", checkout[1]>>>>)

\* clone where a repo_dir that exists is asked about even with no_input
clone_always_asks(f, repo_url, checkout, clone_to_dir, no_input, installed, fetched, checked_out, ok_to_delete, ok_to_reuse) ==
    LET f1 == make_sure_path_exists(f, clone_to_dir)
        identified == identify_repo(repo_url)
        repo_dir == clone_to_dir \o RepoName(identified[2])
        cached == CloneCached(f1, repo_dir, FALSE, ok_to_delete, ok_to_reuse)
    IN  IF identified = <<>> THEN Raises(f1, "UnknownRepoType", <<>>, <<>>)
        ELSE IF identified[1] \notin installed
            THEN Raises(f1, "VCSNotInstalled", <<identified[1]>>, <<>>)
        ELSE IF cached.raised # None THEN cached
        ELSE IF ~cached.ret THEN Returns(cached.fs, repo_dir, cached.ev)
        ELSE CloneFetch(cached.fs, cached.ev, identified[1], identified[2], repo_dir,
                        checkout, fetched, checked_out)

\* clone, where installed is the set of version control systems that
\* which() finds, and checkout is <<>> for None
clone(f, repo_url, checkout, clone_to_dir, no_input, installed, fetched, checked_out, ok_to_delete, ok_to_reuse) ==
    LET f1 == make_sure_path_exists(f, clone_to_dir)
        identified == identify_repo(repo_url)
        repo_dir == clone_to_dir \o RepoName(identified[2])
        cached == CloneCached(f1, repo_dir, no_input, ok_to_delete, ok_to_reuse)
    IN  IF identified = <<>> THEN Raises(f1, "UnknownRepoType", <<>>, <<>>)
        ELSE IF identified[1] \notin installed
            THEN Raises(f1, "VCSNotInstalled", <<identified[1]>>, <<>>)
        ELSE IF cached.raised # None THEN cached
        ELSE IF ~cached.ret THEN Returns(cached.fs, repo_dir, cached.ev)
        ELSE CloneFetch(cached.fs, cached.ev, identified[1], identified[2], repo_dir,
                        checkout, fetched, checked_out)

\* an archive by what it holds: the names of its members in order, each a
\* path and whether it is a directory, the password that protects it if
\* any, and whether it can be read as an archive at all
Zip(namelist, pwd, readable) == [namelist |-> namelist, pwd |-> pwd, readable |-> readable]
ZipDir(p) == [p |-> p, d |-> TRUE]
ZipFile(p) == [p |-> p, d |-> FALSE]

\* the archives, by name
Archives ==
    [ stale |-> Zip(<<ZipDir(<<"old">>), ZipFile(<<"old", "cookiecutter.json">>)>>, None, TRUE),
      good |-> Zip(<<ZipDir(<<"demo">>), ZipFile(<<"demo", "cookiecutter.json">>)>>, None, TRUE),
      files |-> Zip(<<ZipFile(<<"demo", "cookiecutter.json">>), ZipFile(<<"demo", "README.md">>)>>, None, TRUE),
      protected |-> Zip(<<ZipDir(<<"demo">>), ZipFile(<<"demo", "cookiecutter.json">>)>>, "pw", TRUE),
      locked |-> Zip(<<ZipFile(<<"demo", "cookiecutter.json">>), ZipFile(<<"demo", "README.md">>)>>, "pw", TRUE),
      flat |-> Zip(<<ZipFile(<<"cookiecutter.json">>)>>, None, TRUE),
      twotop |-> Zip(<<ZipFile(<<"a", "cookiecutter.json">>), ZipFile(<<"b", "README.md">>)>>, None, TRUE),
      nojson |-> Zip(<<ZipDir(<<"demo">>), ZipFile(<<"demo", "README.md">>)>>, None, TRUE),
      empty |-> Zip(<<>>, None, TRUE),
      corrupt |-> Zip(<<>>, None, FALSE) ]

\* the content of the file that is the archive of the name
ZipBytes(name) == <<[t |-> "Zip", s |-> name]>>

\* zip_file.read(name, pwd) raises RuntimeError: the archive is protected
\* and pwd is not its password
BadPassword(zip, pwd) == zip.pwd # None /\ zip.pwd # pwd

\* os.path.commonprefix(namelist).rstrip('/') for members that are files,
\* no two of which have a component that only begins as one of the other
RECURSIVE CommonPrefix(_, _)
CommonPrefix(namelist, n) ==
    IF n = 0 THEN <<>>
    ELSE IF \A i \in 1..Len(namelist) :
                /\ Len(namelist[i].p) >= n
                /\ SubSeq(namelist[i].p, 1, n) = SubSeq(namelist[1].p, 1, n)
        THEN SubSeq(namelist[1].p, 1, n)
    ELSE CommonPrefix(namelist, n - 1)

\* zip_file.extractall(temp_dir)
RECURSIVE ExtractAll(_, _, _, _)
ExtractAll(f, temp_dir, namelist, i) ==
    IF i > Len(namelist) THEN f
    ELSE ExtractAll(IF namelist[i].d THEN make_sure_path_exists(f, temp_dir \o namelist[i].p)
                    ELSE WriteFile(make_sure_path_exists(f, Parent(temp_dir \o namelist[i].p)),
                                   temp_dir \o namelist[i].p, <<Lit("{}")>>),
                    temp_dir, namelist, i + 1)

\* tempfile.mkdtemp(prefix='cookiecutter-', suffix='-unzip')
UnzipDir == <<"tmp", "unzip">>

\* the first member of the archive that is a file, 0 if there is none: the
\* members that are directories are not encrypted
FirstFile(namelist) ==
    IF \A i \in 1..Len(namelist) : namelist[i].d THEN 0
    ELSE CHOOSE i \in 1..Len(namelist) :
             ~namelist[i].d /\ \A j \in 1..(i - 1) : namelist[j].d

\* Unpack that asks for the password a second time
Unpack_asks_again(f, ev, zip_path, no_input, password, answer) ==
    LET temp_dir == UnzipDir
        f1 == make_sure_path_exists(f, temp_dir)
        made == ev \o <<<<"mkdtemp", temp_dir>>>>
        zip == Archives[f[zip_path].c[1].s]
        namelist == zip.namelist
        asked == made \o <<<<"ask", "password", zip_path>>>> \o <<<<"ask", "password", zip_path>>>>
        needed == ~namelist[1].d /\ BadPassword(zip, password)
        pwd == IF needed THEN answer ELSE password
        evp == IF needed THEN asked ELSE made
        base_dir == IF namelist[1].d THEN namelist[1].p
                    ELSE CommonPrefix(namelist, Len(namelist[1].p))
        f2 == ExtractAll(f1, temp_dir, namelist, 1)
        base_dir_path == temp_dir \o base_dir
    IN  IF isdir(f, zip_path) THEN Raises(f1, "IsADirectoryError", zip_path, made)
        ELSE IF f[zip_path].c = <<>> \/ f[zip_path].c[1].t # "Zip" \/ ~zip.readable
            THEN Raises(f1, "InvalidZipRepository", <<"invalid zip file">>, made)
        ELSE IF namelist = <<>>
            THEN Raises(f1, "InvalidZipRepository", <<"empty">>, made)
        ELSE IF needed /\ no_input
            THEN Raises(f1, "InvalidZipRepository", <<"no password provided">>, made)
        ELSE IF needed /\ BadPassword(zip, pwd)
            THEN Raises(f1, "InvalidZipRepository", <<"invalid password">>, evp)
        ELSE IF base_dir = <<>>
            THEN Raises(f1, "InvalidZipRepository", <<"no top level directory">>, evp)
        ELSE IF BadPassword(zip, pwd) /\ FirstFile(namelist) > 0
            THEN Raises(ExtractAll(f1, temp_dir, SubSeq(namelist, 1, FirstFile(namelist) - 1), 1),
                        "InvalidZipRepository", <<"unable to extract">>,
                        evp \o <<<<"extract", temp_dir>>>>)
        ELSE IF ~isdir(f2, base_dir_path)
            THEN Raises(f2, "InvalidZipRepository", <<"no template directory">>,
                        evp \o <<<<"extract", temp_dir>>>>)
        ELSE IF ~exists(f2, base_dir_path \o <<"cookiecutter.json">>)
            THEN Raises(f2, "InvalidZipRepository", <<"no cookiecutter.json">>,
                        evp \o <<<<"extract", temp_dir>>>>)
        ELSE Returns(f2, base_dir_path, evp \o <<<<"extract", temp_dir>>>>)

\* lines 59-129 of unzip: the archive at zip_path is unpacked into a
\* temporary directory; answer is the password the user would enter.  The
\* password is asked for when the first member cannot be read, and the
\* extraction fails when a member that is a file cannot be
Unpack(f, ev, zip_path, no_input, password, answer) ==
    LET temp_dir == UnzipDir
        f1 == make_sure_path_exists(f, temp_dir)
        made == ev \o <<<<"mkdtemp", temp_dir>>>>
        zip == Archives[f[zip_path].c[1].s]
        namelist == zip.namelist
        asked == made \o <<<<"ask", "password", zip_path>>>>
        needed == ~namelist[1].d /\ BadPassword(zip, password)
        pwd == IF needed THEN answer ELSE password
        evp == IF needed THEN asked ELSE made
        base_dir == IF namelist[1].d THEN namelist[1].p
                    ELSE CommonPrefix(namelist, Len(namelist[1].p))
        f2 == ExtractAll(f1, temp_dir, namelist, 1)
        base_dir_path == temp_dir \o base_dir
    IN  IF isdir(f, zip_path) THEN Raises(f1, "IsADirectoryError", zip_path, made)
        ELSE IF f[zip_path].c = <<>> \/ f[zip_path].c[1].t # "Zip" \/ ~zip.readable
            THEN Raises(f1, "InvalidZipRepository", <<"invalid zip file">>, made)
        ELSE IF namelist = <<>>
            THEN Raises(f1, "InvalidZipRepository", <<"empty">>, made)
        ELSE IF needed /\ no_input
            THEN Raises(f1, "InvalidZipRepository", <<"no password provided">>, made)
        ELSE IF needed /\ BadPassword(zip, pwd)
            THEN Raises(f1, "InvalidZipRepository", <<"invalid password">>, evp)
        ELSE IF base_dir = <<>>
            THEN Raises(f1, "InvalidZipRepository", <<"no top level directory">>, evp)
        ELSE IF BadPassword(zip, pwd) /\ FirstFile(namelist) > 0
            THEN Raises(ExtractAll(f1, temp_dir, SubSeq(namelist, 1, FirstFile(namelist) - 1), 1),
                        "InvalidZipRepository", <<"unable to extract">>,
                        evp \o <<<<"extract", temp_dir>>>>)
        ELSE IF ~isdir(f2, base_dir_path)
            THEN Raises(f2, "InvalidZipRepository", <<"no template directory">>,
                        evp \o <<<<"extract", temp_dir>>>>)
        ELSE IF ~exists(f2, base_dir_path \o <<"cookiecutter.json">>)
            THEN Raises(f2, "InvalidZipRepository", <<"no cookiecutter.json">>,
                        evp \o <<<<"extract", temp_dir>>>>)
        ELSE Returns(f2, base_dir_path, evp \o <<<<"extract", temp_dir>>>>)

\* lines 44-51 of unzip: the download into the cache, where served is the
\* content the server answers with, or None where the request fails
Download(f, ev, zip_uri, zip_path, served) ==
    IF served = None THEN Raises(f, "HTTPError", zip_uri, ev \o <<<<"download", zip_uri>>>>)
    ELSE Returns(WriteFile(f, zip_path, ZipBytes(served)), zip_path,
                 ev \o <<<<"download", zip_uri>>>>)

\* unzip, where zip_uri is the path of a file or the components of a URL,
\* and password is the one given or, failing that, the one of the
\* environment
unzip(f, zip_uri, is_url, clone_to_dir, no_input, password, served, answer, ok_to_delete, ok_to_reuse) ==
    LET f1 == make_sure_path_exists(f, clone_to_dir)
        zip_path == IF is_url THEN clone_to_dir \o <<zip_uri[Len(zip_uri)]>> ELSE zip_uri
        cached == IF ~exists(f1, zip_path) THEN Returns(f1, TRUE, <<>>)
                  ELSE IF no_input /\ isdir(f1, zip_path)
                      THEN Raises(f1, "IsADirectoryError", zip_path, <<>>)
                  ELSE IF no_input
                      THEN Returns(rmtree(f1, zip_path), TRUE, <<<<"remove", zip_path>>>>)
                  ELSE prompt_and_delete(f1, zip_path, FALSE, ok_to_delete, ok_to_reuse)
        downloaded == Download(cached.fs, cached.ev, zip_uri, zip_path, served)
    IN  IF ~is_url
            THEN IF ~exists(f1, zip_path)
                 THEN Raises(f1, "InvalidZipRepository", <<"does not exist">>, <<>>)
                 ELSE Unpack(f1, <<>>, zip_path, no_input, password, answer)
        ELSE IF cached.raised # None THEN cached
        ELSE IF ~cached.ret THEN Returns(cached.fs, zip_path, cached.ev)
        ELSE IF downloaded.raised # None THEN downloaded
        ELSE Unpack(downloaded.fs, downloaded.ev, zip_path, no_input, password, answer)

(***************************************************************************)
(* cli.py                                                                  *)
(***************************************************************************)
\* the exceptions the pipeline cookiecutter(...) raises
PipelineErrors ==
    { "ContextDecodingException", "OutputDirExistsException", "InvalidModeException",
      "FailedHookException", "UnknownExtension", "InvalidZipRepository",
      "RepositoryNotFound", "RepositoryCloneFailed", "UndefinedVariableInTemplate",
      "TemplateSyntaxError", "VCSNotInstalled", "NonTemplatedInputDirException" }

\* the except clause of line 119
CaughtErrors ==
    { "ContextDecodingException", "OutputDirExistsException", "InvalidModeException",
      "FailedHookException", "UnknownExtension", "InvalidZipRepository",
      "RepositoryNotFound", "RepositoryCloneFailed" }

\* sys.exit(status) after the lines echoed
Exit(f, status, ev) == Raises(f, "SystemExit", <<status>>, ev)
Echo(line) == <<<<"echo", line>>>>

\* how the call of get_user_config of line 33 can end: it returns a
\* configuration, for which the value is None, or it raises
ConfigErrors == {None, "TypeError", "ConfigDoesNotExistException", "InvalidConfiguration"}

\* list_installed_templates, where config_error is how get_user_config
\* ends, and the directory of installed templates that the configuration
\* names exists or not and holds the names installed
list_installed_templates(f, config_error, dir_exists, installed) ==
    LET template_names == SelectSeq(installed, LAMBDA d : FirstChar(d) # ".")
        lines == [i \in 1..Len(template_names) |-> <<"echo", <<"  ", template_names[i]>>>>]
    IN  IF config_error # None THEN Raises(f, config_error, <<"get_user_config">>, <<>>)
        ELSE IF ~dir_exists
            THEN Exit(f, 1, Echo(<<"Error: Cannot list installed templates.">>))
        ELSE IF template_names = <<>>
            THEN Exit(f, 0, Echo(<<"No installed templates found.">>))
        ELSE Exit(f, 0, Echo(<<"Installed templates:">>) \o lines)

\* lines 100-124: the call of the pipeline, which raises pipeline with the
\* message "msg" or returns, inside the try statement that catches caught
RunPipeline(f, template, pipeline, caught) ==
    LET called == <<<<"cookiecutter", template>>>>
    IN  IF pipeline = None THEN Returns(f, <<>>, called)
        ELSE IF pipeline \in caught
            THEN Exit(f, 1, called \o Echo(<<"Error: ", "msg">>))
        ELSE IF pipeline = "UndefinedVariableInTemplate"
            THEN Exit(f, 1, called \o Echo(<<"msg", " is undefined">>))
        ELSE Raises(f, pipeline, <<"msg">>, called)

\* main with an except clause for every exception of the pipeline
main_catch_all(f, template, extra_context, no_input, replay, list_installed, config_error, dir_exists, installed, pipeline) ==
    IF list_installed THEN list_installed_templates(f, config_error, dir_exists, installed)
    ELSE IF template = <<>>
        THEN Exit(f, 1, Echo(<<"Error: Missing argument \"TEMPLATE\".">>))
    ELSE IF replay /\ no_input
        THEN Exit(f, 1, Echo(<<"Error: --no-input and --replay cannot be used together.">>))
    ELSE IF replay /\ extra_context # <<>>
        THEN Exit(f, 1, Echo(<<"Error: --replay and extra context cannot be used together.">>))
    ELSE RunPipeline(f, template, pipeline, PipelineErrors \ {"UndefinedVariableInTemplate"})

\* main without the validation of lines 91-98
main_no_validation(f, template, extra_context, no_input, replay, list_installed, config_error, dir_exists, installed, pipeline) ==
    IF list_installed THEN list_installed_templates(f, config_error, dir_exists, installed)
    ELSE IF template = <<>>
        THEN Exit(f, 1, Echo(<<"Error: Missing argument \"TEMPLATE\".">>))
    ELSE RunPipeline(f, template, pipeline, CaughtErrors)

\* main: template is <<>> when the argument is missing, extra_context is
\* <<>> when validate_extra_context returned None
main(f, template, extra_context, no_input, replay, list_installed, config_error, dir_exists, installed, pipeline) ==
    IF list_installed THEN list_installed_templates(f, config_error, dir_exists, installed)
    ELSE IF template = <<>>
        THEN Exit(f, 1, Echo(<<"Error: Missing argument \"TEMPLATE\".">>))
    ELSE IF replay /\ no_input
        THEN Exit(f, 1, Echo(<<"Error: --no-input and --replay cannot be used together.">>))
    ELSE IF replay /\ extra_context # <<>>
        THEN Exit(f, 1, Echo(<<"Error: --replay and extra context cannot be used together.">>))
    ELSE RunPipeline(f, template, pipeline, CaughtErrors)

(***************************************************************************)
(* The state machine: every step is one call of a function of the package *)
(* on the file system the earlier calls left.                              *)
(***************************************************************************)
NoCall ==
    [fn |-> "none", a |-> <<>>, raised |-> None, arg |-> <<>>, ret |-> <<>>, ev |-> <<>>]

Init ==
    /\ fs = FixtureFs
    /\ cwd = <<"home">>
    /\ last = NoCall

\* the record of the call fn(a) that ended with the outcome out
Record(fn, a, out) ==
    [fn |-> fn, a |-> a, raised |-> out.raised, arg |-> out.arg, ret |-> out.ret,
     ev |-> out.ev]

DirNames == {"{{cookiecutter.repo_name}}", "{{cookiecutter.missing}}", "demo2"}
InFiles ==
    { <<"README.md">>, <<"undef.txt">>, <<"bad.md">>,
      <<"{{cookiecutter.repo_name}}", "README.md">>,
      <<"hooks", "pre_gen_project.sh">>, <<"hooks", "post_gen_project.py">> }
HookNames == {"pre_gen_project", "post_gen_project"}
\* the scripts run_script_with_context is given: one that exits 0, one that
\* exits 1, one that is empty and cannot be executed
HookScripts ==
    { <<"hooked", "hooks", "pre_gen_project.py">>, <<"tpl", "hooks", "pre_gen_project.sh">>,
      <<"bare", "empty.sh">> }
\* overwrite_if_exists and skip_if_file_exists as generate_files is given them
Modes == {<<FALSE, FALSE>>, <<TRUE, FALSE>>, <<FALSE, TRUE>>}

\* the working directory a call leaves is the one its changes of
\* directory end in
Call_render_and_create_dir ==
    \E dirname \in DirNames, context \in {CtxA}, overwrite_if_exists \in BOOLEAN :
        LET out == render_and_create_dir(fs, dirname, context, OutputDir, overwrite_if_exists)
        IN  /\ fs' = out.fs
            /\ cwd' = CwdAfter(cwd, out.ev)
            /\ last' = Record("render_and_create_dir",
                              [dirname |-> dirname, overwrite_if_exists |-> overwrite_if_exists],
                              out)

\* generate_file is called inside work_in(tpl), as its docstring requires
Call_generate_file ==
    \E infile \in InFiles, context \in {CtxA, CtxB}, skip_if_file_exists \in BOOLEAN :
        LET out == generate_file(fs, <<"tpl">>, ProjectDir, infile, context, skip_if_file_exists)
        IN  /\ fs' = out.fs
            /\ cwd' = CwdAfter(cwd, out.ev)
            /\ last' = Record("generate_file",
                              [infile |-> infile, context |-> context,
                               skip_if_file_exists |-> skip_if_file_exists],
                              out)

\* generate_files and _run_hook_from_repo_dir raise before they come to list
\* a directory: the order of a listing has no part in what they do
Call_generate_files ==
    \E repo_dir \in {<<"good">>, <<"hooked">>, <<"tpl">>}, mode \in Modes,
       accept_hooks \in BOOLEAN, keep_project_on_failure \in BOOLEAN :
        LET out == generate_files(fs, NoListing, repo_dir, CtxA, OutputDir, mode[1], mode[2],
                                  accept_hooks, keep_project_on_failure)
        IN  /\ fs' = out.fs
            /\ cwd' = CwdAfter(cwd, out.ev)
            /\ last' = Record("generate_files",
                              [repo_dir |-> repo_dir, overwrite_if_exists |-> mode[1],
                               skip_if_file_exists |-> mode[2],
                               accept_hooks |-> accept_hooks,
                               keep_project_on_failure |-> keep_project_on_failure],
                              out)

Call__run_hook_from_repo_dir ==
    \E repo_dir \in {<<"tpl">>, <<"bare">>}, hook_name \in HookNames,
       delete_project_on_failure \in BOOLEAN :
        LET out == _run_hook_from_repo_dir(fs, NoListing, repo_dir, hook_name, ProjectDir, CtxA,
                                           delete_project_on_failure)
        IN  /\ fs' = out.fs
            /\ cwd' = CwdAfter(cwd, out.ev)
            /\ last' = Record("_run_hook_from_repo_dir",
                              [repo_dir |-> repo_dir, hook_name |-> hook_name,
                               delete_project_on_failure |-> delete_project_on_failure],
                              out)

Call_run_hook_from_repo_dir ==
    \E repo_dir \in {<<"tpl">>, <<"bare">>}, hook_name \in HookNames,
       delete_project_on_failure \in BOOLEAN :
      \E order \in Listings(fs, HookDirs(ProjectDir, hook_name)) :
        LET out == run_hook_from_repo_dir(fs, order, repo_dir, hook_name, ProjectDir, CtxA,
                                          delete_project_on_failure)
        IN  /\ fs' = out.fs
            /\ cwd' = CwdAfter(cwd, out.ev)
            /\ last' = Record("run_hook_from_repo_dir",
                              [repo_dir |-> repo_dir, hook_name |-> hook_name,
                               delete_project_on_failure |-> delete_project_on_failure,
                               order |-> order],
                              out)

Call_run_hook ==
    \E hook_name \in HookNames :
      \E order \in Listings(fs, HookDirs(ProjectDir, hook_name)) :
        LET out == run_hook(fs, order, hook_name, ProjectDir, CtxA)
        IN  /\ fs' = out.fs
            /\ cwd' = CwdAfter(cwd, out.ev)
            /\ last' = Record("run_hook", [hook_name |-> hook_name, order |-> order], out)

Call_run_script_with_context ==
    \E script_path \in HookScripts :
        LET out == run_script_with_context(fs, script_path, ProjectDir, CtxA)
        IN  /\ fs' = out.fs
            /\ cwd' = CwdAfter(cwd, out.ev)
            /\ last' = Record("run_script_with_context", [script_path |-> script_path], out)

Call_run_pre_prompt_hook ==
    \E repo_dir \in {<<"tpl">>, <<"hooked">>, <<"bare">>, <<"gone">>} :
      \E order \in Listings(fs, HookDirs(repo_dir, "pre_prompt")) :
        LET out == run_pre_prompt_hook(fs, order, repo_dir)
        IN  /\ fs' = out.fs
            /\ cwd' = CwdAfter(cwd, out.ev)
            /\ last' = Record("run_pre_prompt_hook", [repo_dir |-> repo_dir, order |-> order], out)

Next ==
    \/ Call_render_and_create_dir
    \/ Call_generate_file
    \/ Call_generate_files
    \/ Call__run_hook_from_repo_dir
    \/ Call_run_hook_from_repo_dir
    \/ Call_run_hook
    \/ Call_run_script_with_context
    \/ Call_run_pre_prompt_hook

Spec == Init /\ [][Next]_vars

(***************************************************************************)
(* The context builder alone: one call of generate_context on a            *)
(* variable-definition file, defaults and overrides.                       *)
(***************************************************************************)
Call_generate_context ==
    /\ last.fn = "none"
    /\ \E doc \in JsonDocs, default_context \in ContextDicts, extra_context \in ContextDicts :
        LET out == generate_context(doc, default_context, extra_context)
        IN  /\ last' = [fn |-> "generate_context",
                        a |-> [doc |-> doc, default_context |-> default_context,
                               extra_context |-> extra_context],
                        raised |-> out.raised, arg |-> <<>>, ret |-> out.ret, ev |-> <<>>]
            /\ UNCHANGED <<fs, cwd>>

NextContext == Call_generate_context

SpecContext == Init /\ [][NextContext]_vars

(***************************************************************************)
(* The merge alone: apply_overwrites_to_context on a context, and once     *)
(* more, with the same overrides, on the context the first call left.      *)
(***************************************************************************)
\* the contexts apply_overwrites_to_context is given: the variables of a
\* variable-definition file, or a mapping of the shape of the overrides
MergeContexts ==
    { JsonLoad(doc).obj : doc \in JsonDocs } \cup ContextDicts

Call_apply_overwrites_to_context ==
    /\ last.fn = "none"
    /\ \E context \in MergeContexts, overwrite_context \in ContextDicts :
        LET out == apply_overwrites_to_context(context, overwrite_context)
        IN  /\ last' = [fn |-> "apply_overwrites_to_context",
                        a |-> [context |-> context, overwrite_context |-> overwrite_context,
                               again |-> FALSE],
                        raised |-> out.raised, arg |-> <<>>, ret |-> out.context, ev |-> <<>>]
            /\ UNCHANGED <<fs, cwd>>

\* the context is modified in place: the second call works on what the
\* first left, whether it returned or raised
Call_apply_overwrites_to_context_again ==
    /\ last.fn = "apply_overwrites_to_context"
    /\ ~last.a.again
    /\ LET out == apply_overwrites_to_context(last.ret, last.a.overwrite_context)
       IN  /\ last' = [fn |-> "apply_overwrites_to_context",
                       a |-> [context |-> last.ret,
                              overwrite_context |-> last.a.overwrite_context,
                              again |-> TRUE],
                       raised |-> out.raised, arg |-> <<>>, ret |-> out.context, ev |-> <<>>]
           /\ UNCHANGED <<fs, cwd>>

NextMerge ==
    \/ Call_apply_overwrites_to_context
    \/ Call_apply_overwrites_to_context_again

SpecMerge == Init /\ [][NextMerge]_vars

(***************************************************************************)
(* The replay store alone: dump and load on a replay directory.            *)
(***************************************************************************)
ReplayDir == <<"replay">>
\* the replay directory holds one record, of an empty context
ReplayFs ==
    [p \in {ReplayDir, ReplayDir \o <<"empty.json">>} |->
        IF p = ReplayDir THEN DirEntry ELSE FileEntry(<<JPunct("{"), JPunct("}")>>)]

InitReplay ==
    /\ fs = ReplayFs
    /\ cwd = <<"home">>
    /\ last = NoCall

\* template names: "demo", "gh/demo", "demo.json", "other", "empty"
TemplateNames == {<<"demo">>, <<"gh", "demo">>, <<"demo.json">>, <<"other">>, <<"empty">>}
\* the replay directory and template name of a call; the directory "new"
\* does not exist at the start
ReplayTargets ==
    { <<ReplayDir, n>> : n \in TemplateNames } \cup { <<<<"new">>, <<"demo">>>> }
\* the contexts dump is given: an empty one, one that is not a mapping, and
\* contexts with no variable, a scalar variable and a nested mapping
ReplayContexts ==
    { Dict(<<>>), Str("v1"),
      Dict([cookiecutter |-> Dict(<<>>)]),
      Dict([cookiecutter |-> Dict([a |-> Str("v1")])]),
      Dict([cookiecutter |-> Dict([a |-> Dict([x |-> Str("v2")])])]) }

Call_dump ==
    \E target \in ReplayTargets, context \in ReplayContexts :
        LET out == dump(fs, target[1], target[2], context)
        IN  /\ fs' = out.fs
            /\ cwd' = CwdAfter(cwd, out.ev)
            /\ last' = Record("dump", [replay_dir |-> target[1], template_name |-> target[2], context |-> context], out)

Call_load ==
    \E target \in ReplayTargets :
        LET out == load(fs, target[1], target[2])
        IN  /\ fs' = out.fs
            /\ cwd' = CwdAfter(cwd, out.ev)
            /\ last' = Record("load", [replay_dir |-> target[1], template_name |-> target[2]], out)

NextReplay ==
    \/ Call_dump
    \/ Call_load

SpecReplay == InitReplay /\ [][NextReplay]_vars

(***************************************************************************)
(* The prompting pass alone: one call of prompt_for_config on the          *)
(* variables of a variable-definition file.                                *)
(***************************************************************************)
MaxVars == 3

\* the variables the definition files are made of
VariablePool ==
    { Entry("project_name", PStr(<<Lit("Peanut Butter")>>)),
      Entry("repo_name", PStr(<<Lower("project_name")>>)),
      Entry("license", PList(<<PStr(<<Lit("MIT")>>), PStr(<<Lit("BSD")>>)>>)),
      Entry("use_ci", PBool(TRUE)),
      Entry("meta", PDict([owner |-> "ann"])),
      Entry("_private", PStr(<<Lit("x"), Var("missing")>>)),
      Entry("_template", PDict([owner |-> "ann"])),
      Entry("bad", PStr(<<Lit("x"), Bad>>)),
      Entry("flavours", PList(<<PStr(<<Lit("plain")>>), PStr(<<Var("missing")>>)>>)) }

\* the definition files: up to MaxVars variables with distinct keys, in
\* any order
Definitions ==
    UNION { { d \in [1..n -> VariablePool] : \A i, j \in 1..n : i # j => d[i].key # d[j].key } :
            n \in 1..MaxVars }

Call_prompt_for_config ==
    /\ last.fn = "none"
    /\ \E definition \in Definitions, no_input \in BOOLEAN, answer \in {"default", "other"} :
        LET out == prompt_for_config(definition, no_input, answer)
        IN  /\ last' = [fn |-> "prompt_for_config",
                        a |-> [definition |-> definition, no_input |-> no_input, answer |-> answer],
                        raised |-> out.raised, arg |-> out.arg, ret |-> out.ret, ev |-> out.ev]
            /\ UNCHANGED <<fs, cwd>>

NextPrompt == Call_prompt_for_config

SpecPrompt == Init /\ [][NextPrompt]_vars

(***************************************************************************)
(* The hook finder alone: find_hook and run_hook in a project directory    *)
(* that holds any of a pool of hook files.                                 *)
(***************************************************************************)
\* the files a project directory can hold: scripts in hooks/ whose names
\* equal, extend or differ from a hook's name, scripts in the per-hook
\* subdirectory, and the variable-definition file
HookFilePool ==
    { <<<<"cookiecutter.json">>, <<Lit("{}")>>>>,
      <<<<"hooks", "pre_gen_project_old.sh">>, FailScript>>,
      <<<<"hooks", "pre_gen_project.sh">>, FailScript>>,
      <<<<"hooks", "pre_gen_project.py">>, OkScript>>,
      <<<<"hooks", "post_gen_project.py">>, OkScript>>,
      <<<<"hooks", "pre_gen_project", "pre_gen_project.py">>, OkScript>>,
      <<<<"hooks", "pre_gen_project", "post_gen_project.py">>, OkScript>>,
      <<<<"hooks", "post_gen_project", "post_gen_project.py">>, OkScript>> }

\* the file system in which the project directory holds the files held
HookLayout(held) ==
    LET files == { ProjectDir \o h[1] : h \in held }
        dirs == UNION { Prefixes(Parent(p)) : p \in files } \cup Prefixes(ProjectDir)
    IN [p \in files \cup dirs |->
            IF p \in dirs THEN DirEntry
            ELSE FixtureEntry(p, (CHOOSE h \in held : ProjectDir \o h[1] = p)[2])]

InitHooks ==
    /\ fs \in { HookLayout(held) : held \in SUBSET HookFilePool }
    /\ cwd = <<"home">>
    /\ last = NoCall

\* find_hook is called with the project directory as the working directory
Call_find_hook ==
    /\ last.fn = "none"
    /\ \E hook_name \in HookNames :
          \E order \in Listings(fs, HookDirs(ProjectDir, hook_name)) :
            LET found == find_hook(fs, order, ProjectDir, hook_name)
            IN  /\ last' = Record("find_hook", [hook_name |-> hook_name, order |-> order],
                                  Outcome(fs, found.raised, <<>>, found.ret, <<>>))
                /\ UNCHANGED <<fs, cwd>>

\* one call of run_hook on the layout
Hooks_run_hook ==
    /\ last.fn = "none"
    /\ Call_run_hook

NextHooks ==
    \/ Call_find_hook
    \/ Hooks_run_hook

SpecHooks == InitHooks /\ [][NextHooks]_vars

(***************************************************************************)
(* The template locator alone: find_template on a repository that holds    *)
(* any of a pool of candidate directories.                                 *)
(***************************************************************************)
RepoDir == <<"repo">>

\* what a repository can hold: the variable-definition file at its top, in
\* the two directories of fixed name, in a plain, a placeholder and a
\* hidden subdirectory, and a subdirectory that is no template
RepoFilePool ==
    { <<"cookiecutter.json">>,
      <<"_cookiecutter", "cookiecutter.json">>,
      <<"cookiecutter", "cookiecutter.json">>,
      <<"app", "cookiecutter.json">>,
      <<"{{cookiecutter.repo_name}}", "cookiecutter.json">>,
      <<".git", "cookiecutter.json">>,
      <<"demo", "README.md">> }

\* the file system in which the repository holds the files held
RepoLayout(held) ==
    LET files == { RepoDir \o h : h \in held }
        dirs == UNION { Prefixes(Parent(p)) : p \in files } \cup {RepoDir}
    IN [p \in files \cup dirs |-> IF p \in dirs THEN DirEntry ELSE FileEntry(<<Lit("{}")>>)]

InitFind ==
    /\ fs \in { RepoLayout(held) : held \in SUBSET RepoFilePool }
    /\ cwd = <<"home">>
    /\ last = NoCall

Call_find_template ==
    /\ last.fn = "none"
    /\ \E repo_dir \in {RepoDir, RepoDir \o <<"app">>, RepoDir \o <<"demo">>} :
          \E order \in Listings(fs, {repo_dir}) :
            LET out == find_template(fs, order, repo_dir)
            IN  /\ last' = Record("find_template", [repo_dir |-> repo_dir, order |-> order], out)
                /\ UNCHANGED <<fs, cwd>>

NextFind == Call_find_template

SpecFind == InitFind /\ [][NextFind]_vars

(***************************************************************************)
(* The command line alone: one run of main on the options given and on a   *)
(* pipeline that returns or raises.                                        *)
(***************************************************************************)
\* the names in the directory of installed templates
InstalledNames == { <<>>, <<".git">>, <<"demo", ".git">> }

Call_main ==
    /\ last.fn = "none"
    /\ \E template \in {<<>>, <<"tpl">>}, extra_context \in {<<>>, <<"author=ann">>},
          no_input \in BOOLEAN, replay \in BOOLEAN, list_installed \in BOOLEAN,
          config_error \in ConfigErrors, dir_exists \in BOOLEAN, installed \in InstalledNames,
          pipeline \in PipelineErrors \cup {None} :
        LET out == main(fs, template, extra_context, no_input, replay, list_installed,
                        config_error, dir_exists, installed, pipeline)
        IN  /\ last' = Record("main",
                              [template |-> template, extra_context |-> extra_context,
                               no_input |-> no_input, replay |-> replay,
                               list_installed |-> list_installed,
                               config_error |-> config_error, pipeline |-> pipeline],
                              out)
            /\ fs' = out.fs
            /\ cwd' = cwd

NextCli == Call_main

SpecCli == Init /\ [][NextCli]_vars

(***************************************************************************)
(* The acquisition of a template alone: one call of clone, unzip or        *)
(* prompt_and_delete on a cache that holds an earlier copy or not.         *)
(***************************************************************************)
CacheDir == <<"cache">>

\* what the server answers a download with: the name of an archive, or
\* None for an answer that is an error
Served == (DOMAIN Archives \ {"stale"}) \cup {None}

\* what the cache and the home directory can hold before the call: an
\* earlier clone of the repository, an earlier download of the archive, an
\* archive of the user
CachePool ==
    { <<CacheDir \o <<"demo", "cookiecutter.json">>, <<Lit("stale")>>>>,
      <<CacheDir \o <<"ann", "demo", "cookiecutter.json">>, <<Lit("stale")>>>>,
      <<CacheDir \o <<"demo.zip">>, ZipBytes("stale")>>,
      <<<<"home", "local.zip">>, ZipBytes("locked")>> }

CacheLayout(held) ==
    LET files == { h[1] : h \in held }
        dirs == UNION { Prefixes(Parent(p)) : p \in files }
    IN [p \in files \cup dirs |->
            IF p \in dirs THEN DirEntry
            ELSE FileEntry((CHOOSE h \in held : h[1] = p)[2])]

InitFetch ==
    /\ fs \in { CacheLayout(held) : held \in SUBSET CachePool }
    /\ cwd = <<"home">>
    /\ last = NoCall

\* https://github.com/ann/demo.git, git@github.com:ann/demo.git,
\* hg+https://example.com/ann/demo, https://bitbucket.org/ann/demo,
\* https://example.com/ann/demo
RepoUrls ==
    { RepoUrl("", "github.com", FALSE, <<"ann", "demo">>, ".git"),
      RepoUrl("", "github.com", TRUE, <<"ann", "demo">>, ".git"),
      RepoUrl("hg+", "example.com", FALSE, <<"ann", "demo">>, ""),
      RepoUrl("", "bitbucket.org", FALSE, <<"ann", "demo">>, ""),
      RepoUrl("", "example.com", FALSE, <<"ann", "demo">>, "") }

\* https://example.com/demo.zip, and the archive of the user
ZipUris ==
    { [uri |-> <<"https:", "example.com", "demo.zip">>, is_url |-> TRUE],
      [uri |-> <<"home", "local.zip">>, is_url |-> FALSE] }

Call_clone ==
    /\ last.fn = "none"
    /\ \E repo_url \in RepoUrls, checkout \in {<<>>, <<"v1">>}, no_input \in BOOLEAN,
          installed \in {{"git", "hg"}, {"hg"}}, fetched \in {"ok", "not found", "failed"},
          checked_out \in BOOLEAN, ok_to_delete \in BOOLEAN, ok_to_reuse \in BOOLEAN :
        LET out == clone(fs, repo_url, checkout, CacheDir, no_input, installed, fetched,
                         checked_out, ok_to_delete, ok_to_reuse)
        IN  /\ fs' = out.fs
            /\ cwd' = cwd
            /\ last' = Record("clone",
                              [repo_url |-> repo_url, checkout |-> checkout,
                               no_input |-> no_input, installed |-> installed,
                               fetched |-> fetched, ok_to_delete |-> ok_to_delete,
                               ok_to_reuse |-> ok_to_reuse],
                              out)

Call_unzip ==
    /\ last.fn = "none"
    /\ \E zip \in ZipUris, no_input \in BOOLEAN, password \in {None, "pw"},
          served \in Served, answer \in {"pw", "guess"}, ok_to_delete \in BOOLEAN,
          ok_to_reuse \in BOOLEAN :
        LET out == unzip(fs, zip.uri, zip.is_url, CacheDir, no_input, password, served,
                         answer, ok_to_delete, ok_to_reuse)
        IN  /\ fs' = out.fs
            /\ cwd' = cwd
            /\ last' = Record("unzip",
                              [zip_uri |-> zip.uri, is_url |-> zip.is_url,
                               no_input |-> no_input, password |-> password,
                               served |-> served, answer |-> answer,
                               ok_to_delete |-> ok_to_delete, ok_to_reuse |-> ok_to_reuse],
                              out)

Call_prompt_and_delete ==
    /\ last.fn = "none"
    /\ \E path \in {CacheDir \o <<"demo">>, CacheDir \o <<"demo.zip">>},
          no_input \in BOOLEAN, ok_to_delete \in BOOLEAN, ok_to_reuse \in BOOLEAN :
        LET out == prompt_and_delete(fs, path, no_input, ok_to_delete, ok_to_reuse)
        IN  /\ fs' = out.fs
            /\ cwd' = cwd
            /\ last' = Record("prompt_and_delete", [path |-> path, no_input |-> no_input], out)

NextFetch ==
    \/ Call_clone
    \/ Call_unzip
    \/ Call_prompt_and_delete

SpecFetch == InitFetch /\ [][NextFetch]_vars

(***************************************************************************)
(* The choice of a nested template alone: one call of                      *)
(* choose_nested_template on a context.                                    *)
(***************************************************************************)
\* the values of _template: a path, a list, and mappings from option names
\* to paths, to mappings that describe the option, to both, and to nothing
TemplateValues ==
    { PStr(<<Lit("./plain")>>),
      PList(<<PStr(<<Lit("./plain")>>)>>),
      PMapping(<<Entry("app", PStr(<<Lit("./app")>>))>>),
      PMapping(<<Entry("app", PStr(<<Lit("./app")>>)), Entry("lib", PStr(<<Lit("./lib")>>))>>),
      PMapping(<<Entry("lib", PStr(<<Lit("./lib")>>)), Entry("app", PStr(<<Lit("./app")>>))>>),
      PMapping(<<Entry("app", PDict([_display |-> "App"])),
                 Entry("lib", PStr(<<Lit("./lib")>>))>>),
      PMapping(<<Entry("app", PStr(<<Lit("./app")>>)),
                 Entry("lib", PDict([_display |-> "Lib"]))>>),
      PMapping(<<>>) }

\* the variables a context has besides _template
PlainVariables ==
    { <<>>,
      <<Entry("project_name", PStr(<<Lit("Peanut Butter")>>))>>,
      <<Entry("use_ci", PBool(TRUE))>>,
      <<Entry("project_name", PStr(<<Lit("Peanut Butter")>>)), Entry("use_ci", PBool(TRUE))>> }

NestedContexts ==
    PlainVariables
    \cup { plain \o <<Entry("_template", v)>> : plain \in PlainVariables, v \in TemplateValues }
    \cup { <<Entry("_template", v)>> \o plain : plain \in PlainVariables, v \in TemplateValues }

Call_choose_nested_template ==
    /\ last.fn = "none"
    /\ \E context \in NestedContexts, no_input \in BOOLEAN, answer \in {"default", "other"} :
        LET out == choose_nested_template(context, no_input, answer)
        IN  /\ last' = [fn |-> "choose_nested_template",
                        a |-> [context |-> context, no_input |-> no_input, answer |-> answer],
                        raised |-> out.raised, arg |-> out.arg, ret |-> out.ret, ev |-> out.ev]
            /\ UNCHANGED <<fs, cwd>>

NextNested == Call_choose_nested_template

SpecNested == Init /\ [][NextNested]_vars

(***************************************************************************)
(* The walk alone: lines 239-258 of generate_files, the loop over the      *)
(* files of the template, on a project directory that                      *)
(* render_and_create_dir made.                                             *)
(***************************************************************************)
Walk_generate_files ==
    /\ isdir(fs, ProjectDir)
    /\ \E template_dir \in {<<"mixed">>, <<"good">>, <<"raw">>} :
        \E infiles \in Walks(fs, template_dir), context \in {CtxA, CtxB},
           skip_if_file_exists \in BOOLEAN, keep_project_on_failure \in BOOLEAN :
            LET out == GenerateWalk(fs, template_dir, infiles, 1, ProjectDir, context,
                                    skip_if_file_exists, keep_project_on_failure, <<>>)
            IN  /\ fs' = out.fs
                /\ cwd' = cwd
                /\ last' = Record("generate_files: walk",
                                  [template_dir |-> template_dir, context |-> context,
                                   skip_if_file_exists |-> skip_if_file_exists,
                                   keep_project_on_failure |-> keep_project_on_failure,
                                   walked |-> infiles],
                                  out)

NextWalk ==
    \/ Call_render_and_create_dir
    \/ Walk_generate_files

SpecWalk == Init /\ [][NextWalk]_vars

(***************************************************************************)
(* Repeated runs: generate_files as it is, and lines 216-273 of it on the  *)
(* template directory that find_template is to return, on the project      *)
(* directory that the runs before left.                                    *)
(***************************************************************************)
From_generate_files ==
    \E template_dir \in {<<"good">>, <<"raw">>}, mode \in Modes :
        \E order \in Listings(fs, DirsUnder(fs, template_dir)), context \in {CtxA, CtxB},
           accept_hooks \in BOOLEAN, keep_project_on_failure \in BOOLEAN :
            LET out == GenerateFrom(fs, order, template_dir, template_dir, context, OutputDir,
                                    mode[1], mode[2], accept_hooks, keep_project_on_failure)
            IN  /\ fs' = out.fs
                /\ cwd' = CwdAfter(cwd, out.ev)
                /\ last' = Record("generate_files: from line 216",
                                  [template_dir |-> template_dir, context |-> context,
                                   overwrite_if_exists |-> mode[1],
                                   skip_if_file_exists |-> mode[2],
                                   accept_hooks |-> accept_hooks,
                                   keep_project_on_failure |-> keep_project_on_failure,
                                   walked |-> WalkFiles(fs, order, template_dir, <<>>)],
                                  out)

NextTwice ==
    \/ Call_generate_files
    \/ From_generate_files

SpecTwice == Init /\ [][NextTwice]_vars

(***************************************************************************)
(* Copying without rendering alone: generate_file, and the walk of lines   *)
(* 239-258 of generate_files, with contexts that hold a                    *)
(* copy-without-render list.                                               *)
(***************************************************************************)
CopyInFiles ==
    { <<"README.md">>, <<"undef.txt">>, <<"bad.md">>, <<"logo.png">>,
      <<"{{cookiecutter.repo_name}}", "README.md">> }
CopyContexts == {CtxA, CtxCopyExt, CtxCopyName}

Copy_generate_file ==
    \E infile \in CopyInFiles, context \in CopyContexts, skip_if_file_exists \in BOOLEAN :
        LET out == generate_file(fs, <<"tpl">>, ProjectDir, infile, context, skip_if_file_exists)
        IN  /\ fs' = out.fs
            /\ cwd' = CwdAfter(cwd, out.ev)
            /\ last' = Record("generate_file",
                              [infile |-> infile, context |-> context,
                               skip_if_file_exists |-> skip_if_file_exists],
                              out)

Copy_generate_files ==
    /\ isdir(fs, ProjectDir)
    /\ \E infiles \in Walks(fs, <<"raw">>), context \in CopyContexts,
          skip_if_file_exists \in BOOLEAN, keep_project_on_failure \in {FALSE} :
            LET out == GenerateWalk(fs, <<"raw">>, infiles, 1, ProjectDir, context,
                                    skip_if_file_exists, keep_project_on_failure, <<>>)
            IN  /\ fs' = out.fs
                /\ cwd' = cwd
                /\ last' = Record("generate_files: walk",
                                  [template_dir |-> <<"raw">>, context |-> context,
                                   skip_if_file_exists |-> skip_if_file_exists,
                                   keep_project_on_failure |-> keep_project_on_failure,
                                   walked |-> infiles],
                                  out)

NextCopy ==
    \/ Call_render_and_create_dir
    \/ Copy_generate_file
    \/ Copy_generate_files

SpecCopy == Init /\ [][NextCopy]_vars

(***************************************************************************)
(* The context alone: what generate_file, the walk of generate_files and   *)
(* the hook runner leave of the context they are given.  The record of a   *)
(* call holds the context after it.                                        *)
(***************************************************************************)
LiveInFiles == { <<"setup.txt">>, <<"README.md">>, <<"cookiecutter.json">>, <<"undef.txt">> }
LiveScripts ==
    { <<"live", "hooks", "pre_gen_project.sh">>, <<"hooked", "hooks", "pre_gen_project.py">>,
      <<"tpl", "hooks", "pre_gen_project.sh">> }

Live_generate_file ==
    \E infile \in LiveInFiles, context \in {CtxA, CtxB}, skip_if_file_exists \in BOOLEAN :
        LET out == generate_file(fs, <<"live">>, ProjectDir, infile, context, skip_if_file_exists)
        IN  /\ fs' = out.fs
            /\ cwd' = CwdAfter(cwd, out.ev)
            /\ last' = Record("generate_file",
                              [infile |-> infile, context |-> context,
                               skip_if_file_exists |-> skip_if_file_exists,
                               after |-> generate_file_context(fs, <<"live">>, ProjectDir, infile,
                                                               context, skip_if_file_exists)],
                              out)

Live_generate_files ==
    /\ isdir(fs, ProjectDir)
    /\ \E template_dir \in {<<"live">>, <<"good">>} :
        \E infiles \in Walks(fs, template_dir), context \in {CtxA, CtxB},
           skip_if_file_exists \in BOOLEAN, keep_project_on_failure \in {FALSE} :
            LET out == GenerateWalk(fs, template_dir, infiles, 1, ProjectDir, context,
                                    skip_if_file_exists, keep_project_on_failure, <<>>)
            IN  /\ fs' = out.fs
                /\ cwd' = cwd
                /\ last' = Record("generate_files: walk",
                                  [template_dir |-> template_dir, context |-> context,
                                   skip_if_file_exists |-> skip_if_file_exists,
                                   keep_project_on_failure |-> keep_project_on_failure,
                                   walked |-> infiles,
                                   after |-> GenerateWalk_context(fs, template_dir, infiles, 1,
                                                                  ProjectDir, context,
                                                                  skip_if_file_exists)],
                                  out)

Live_run_script_with_context ==
    /\ isdir(fs, ProjectDir)
    /\ \E script_path \in LiveScripts, context \in {CtxA, CtxB} :
        LET out == run_script_with_context(fs, script_path, ProjectDir, context)
        IN  /\ fs' = out.fs
            /\ cwd' = CwdAfter(cwd, out.ev)
            /\ last' = Record("run_script_with_context",
                              [script_path |-> script_path, context |-> context,
                               after |-> run_script_with_context_context(fs, script_path,
                                                                         ProjectDir, context)],
                              out)

NextLive ==
    \/ Call_render_and_create_dir
    \/ Live_generate_file
    \/ Live_generate_files
    \/ Live_run_script_with_context

SpecLive == Init /\ [][NextLive]_vars

(***************************************************************************)
(* Properties                                                              *)
(***************************************************************************)
\* the output project directory generate_files is to create: output_dir
\* joined with the rendered value of the reserved variable _template
Target == OutputDir \o RenderedPath(<<CtxA["cookiecutter"]["_template"]>>, CtxA)

\* every file and directory at or under the project directory in f is in g
\* with the same content
Kept(f, g) ==
    \A p \in DOMAIN f : IsUnder(p, Target) => (p \in DOMAIN g /\ g[p] = f[p])

\* the positions of the event e in the sequence ev
At(ev, e) == { i \in 1..Len(ev) : ev[i] = e }
\* the positions of the writes of output files in ev
OutputWrites(ev) ==
    { i \in 1..Len(ev) : ev[i][1] = "write" /\ IsUnder(ev[i][2], Target) }

\* C1: under the default policy (keep_project_on_failure false), a run of
\* generate_files on a template one file of which references an undefined
\* variable (hooks not accepted, so that this is the first failure) ends
\* with the output project directory not existing.
C1_UndefinedVariableLeavesNoDir ==
    [][ ( /\ last'.fn = "generate_files"
          /\ last'.a.repo_dir = <<"tpl">>
          /\ ~last'.a.accept_hooks
          /\ ~last'.a.keep_project_on_failure
          /\ (last'.a.overwrite_if_exists \/ ~exists(fs, Target)) )
        => ~exists(fs', Target) ]_vars

\* C2: whatever the failure of generate_files after the output project
\* directory was created (here: the pre-generation hook of the template
\* exits non-zero), with keep_project_on_failure false the directory does
\* not exist when the error reaches the caller.
C2_AnyFailureLeavesNoDir ==
    [][ ( /\ last'.fn = "generate_files"
          /\ last'.a.repo_dir = <<"tpl">>
          /\ last'.a.accept_hooks
          /\ ~last'.a.keep_project_on_failure
          /\ (last'.a.overwrite_if_exists \/ ~exists(fs, Target))
          /\ last'.raised # None )
        => ~exists(fs', Target) ]_vars

\* the calls that are told to keep the project directory on failure
KeepCall(l) ==
    \/ l.fn = "generate_files" /\ l.a.keep_project_on_failure
    \/ /\ l.fn \in {"_run_hook_from_repo_dir", "run_hook_from_repo_dir"}
       /\ ~l.a.delete_project_on_failure

\* C3: a call of generate_files with keep_project_on_failure true, or of
\* one of its hook runners with delete_project_on_failure false, that ends
\* with an error has deleted nothing: the output project directory and
\* every file in it exist, unchanged, when the error reaches the caller.
C3_KeepOnFailureDeletesNothing ==
    [][ (KeepCall(last') /\ last'.raised # None) => Kept(fs, fs') ]_vars

\* a hook run that failed with the project kept: the directory and the
\* files written before are there
C3_Witness ==
    /\ last.fn = "run_hook_from_repo_dir"
    /\ ~last.a.delete_project_on_failure
    /\ last.raised = "FailedHookException"
    /\ isdir(fs, Target)
    /\ isfile(fs, Target \o <<"README.md">>)

\* C4: a run of generate_files, hooks accepted, on the template whose
\* pre-generation hook exits non-zero raises FailedHookException, has
\* written no output file, and has deleted the output project directory
\* unless keep_project_on_failure is set.
C4_PreGenHookFailure ==
    ( /\ last.fn = "generate_files"
      /\ last.a.repo_dir = <<"tpl">>
      /\ last.a.accept_hooks
      /\ last.a.overwrite_if_exists )
    => /\ last.raised = "FailedHookException"
       /\ OutputWrites(last.ev) = {}
       /\ ~last.a.keep_project_on_failure => ~exists(fs, Target)

\* C5: in a run of generate_files with hooks accepted, on a template with
\* both hooks, the output project directory is created, then the
\* pre-generation hook runs, then the files are written, then the
\* post-generation hook runs.
C5_EventOrder ==
    ( /\ last.fn = "generate_files"
      /\ last.a.repo_dir = <<"hooked">>
      /\ last.a.accept_hooks
      /\ last.a.overwrite_if_exists )
    => \E c \in At(last.ev, <<"mkdir", Target>>),
          pre \in At(last.ev, <<"script", <<"hooked", "hooks", "pre_gen_project.py">>>>),
          post \in At(last.ev, <<"script", <<"hooked", "hooks", "post_gen_project.py">>>>) :
            /\ c < pre
            /\ pre < post
            /\ OutputWrites(last.ev) # {}
            /\ \A w \in OutputWrites(last.ev) : pre < w /\ w < post

\* C6: generate_files on a valid template, with a context that resolves
\* every variable and a target directory that does not exist, returns the
\* path of the output project directory, and that directory exists.
C6_ReturnsExistingProjectDir ==
    [][ ( /\ last'.fn = "generate_files"
          /\ last'.a.repo_dir = <<"good">>
          /\ ~exists(fs, Target) )
        => /\ last'.raised = None
           /\ last'.ret = Target
           /\ isdir(fs', Target) ]_vars

\* C7: running a hook for which the template has no script is a silent
\* no-op: the hook runner of generate_files raises nothing, starts no
\* subprocess and leaves the file system as it was.
C7_MissingHookIsNoOp ==
    [][ ( /\ last'.fn = "_run_hook_from_repo_dir"
          /\ ~exists(fs, last'.a.repo_dir \o <<"hooks">>)
          /\ isdir(fs, Target)
          /\ ~exists(fs, Target \o <<"hooks">>) )
        => /\ last'.raised = None
           /\ \A i \in 1..Len(last'.ev) : last'.ev[i][1] # "run"
           /\ fs' = fs ]_vars

\* the directory a call of render_and_create_dir with the arguments a names
C8_Dir(a) == OutputDir \o RenderedPath(<<a.dirname>>, CtxA)

\* C8: render_and_create_dir on a target that exists: with
\* overwrite_if_exists false it raises OutputDirExistsException naming the
\* path and changes nothing; with overwrite_if_exists true it returns the
\* path of the directory, which is then empty, everything that was under
\* it being deleted, and nothing outside it is touched.
C8_ExistingTarget ==
    [][ ( /\ last'.fn = "render_and_create_dir"
          /\ RenderError(NameText(<<last'.a.dirname>>), CtxA) = None
          /\ exists(fs, C8_Dir(last'.a)) )
        => IF last'.a.overwrite_if_exists
           THEN /\ last'.raised = None
                /\ last'.ret = C8_Dir(last'.a)
                /\ isdir(fs', C8_Dir(last'.a))
                /\ \A p \in DOMAIN fs' : IsUnder(p, C8_Dir(last'.a)) => p = C8_Dir(last'.a)
                /\ \A p \in DOMAIN fs :
                      ~IsUnder(p, C8_Dir(last'.a)) => (p \in DOMAIN fs' /\ fs'[p] = fs[p])
           ELSE /\ last'.raised = "OutputDirExistsException"
                /\ last'.arg = C8_Dir(last'.a)
                /\ fs' = fs ]_vars

\* render_and_create_dir has refused a directory that holds a file
C8_Witness ==
    /\ last.fn = "render_and_create_dir"
    /\ ~last.a.overwrite_if_exists
    /\ last.raised = "OutputDirExistsException"
    /\ last.arg = Target
    /\ isfile(fs, Target \o <<"README.md">>)

\* C9: a run of generate_files with skip_if_file_exists true and
\* overwrite_if_exists false, as it is and from line 216 on, leaves every
\* file that the project directory holds, those that an earlier run with
\* the same template, context and output location generated among them,
\* with the content it has
C9_SecondRunKeepsFiles ==
    [][ ( /\ last'.fn \in {"generate_files", "generate_files: from line 216"}
          /\ last'.a.skip_if_file_exists
          /\ ~last'.a.overwrite_if_exists )
        => Kept(fs, fs') ]_vars

\* a run from line 216 on good/ with skip_if_file_exists, without
\* overwrite_if_exists, found the project directory that an earlier run had
\* made: it raised OutputDirExistsException, and README.md and
\* cookiecutter.json are as the earlier run with the same context rendered
\* them
C9_Witness ==
    /\ last.fn = "generate_files: from line 216"
    /\ last.a.template_dir = <<"good">>
    /\ last.a.context = CtxB
    /\ last.a.skip_if_file_exists
    /\ ~last.a.overwrite_if_exists
    /\ last.raised = "OutputDirExistsException"
    /\ isfile(fs, Target \o <<"README.md">>)
    /\ fs[Target \o <<"README.md">>].c = Rendered(ReadmeText, CtxB)
    /\ Rendered(ReadmeText, CtxB) # Rendered(ReadmeText, CtxA)
    /\ isfile(fs, Target \o <<"cookiecutter.json">>)

\* C10: generate_context on a well-formed variable-definition file, with
\* defaults and then overrides whose keys the defaults have too, returns a
\* context in which the value of every such key is the override's; where
\* both values are mappings, the nested keys the override has carry the
\* override's value and the nested keys it lacks keep the default's.
C10_OverridesWin ==
    ( /\ last.fn = "generate_context"
      /\ JsonLoad(last.a.doc).raised = None
      \* the defaults merge into the file's variables
      /\ apply_overwrites_to_context(JsonLoad(last.a.doc).obj,
                                     last.a.default_context).raised = None
      \* every key of the overrides is a key of the defaults
      /\ DOMAIN last.a.extra_context \subseteq DOMAIN last.a.default_context )
    => /\ last.raised = None
       /\ \A key \in DOMAIN last.a.default_context \cap DOMAIN last.a.extra_context :
            LET d == last.a.default_context[key]
                o == last.a.extra_context[key]
                final == last.ret["cookiecutter"][key]
            IN  IF d.k = "dict" /\ o.k = "dict"
                THEN /\ final.k = "dict"
                     /\ \A n \in DOMAIN d.v \cup DOMAIN o.v :
                          /\ n \in DOMAIN final.v
                          /\ final.v[n] = IF n \in DOMAIN o.v THEN o.v[n] ELSE d.v[n]
                ELSE final = o

\* C11: applying the same overrides to a context a second time leaves the
\* context as the first application left it, and ends as the first did.
C11_MergeIdempotent ==
    [][ (last.fn = "apply_overwrites_to_context" /\ last'.fn = "apply_overwrites_to_context"
         /\ last'.a.again)
        => (last'.ret = last.ret /\ last'.raised = last.raised) ]_vars

\* overrides with a nested mapping were merged into a context that had the
\* key as a mapping with another nested key, twice
C11_Witness ==
    /\ last.fn = "apply_overwrites_to_context"
    /\ last.a.again
    /\ last.raised = None
    /\ "a" \in DOMAIN last.a.overwrite_context
    /\ last.a.overwrite_context["a"] = Dict([x |-> Str("v2")])
    /\ last.ret["a"] = Dict([x |-> Str("v2"), y |-> Str("v2")])
    /\ "b" \in DOMAIN last.ret

\* C12: a load that follows a dump that returned, with the same replay
\* directory and template name, returns a value equal to the dumped context.
C12_DumpLoadRoundTrip ==
    [][ ( /\ last.fn = "dump"
          /\ last.raised = None
          /\ last'.fn = "load"
          /\ last'.a.replay_dir = last.a.replay_dir
          /\ last'.a.template_name = last.a.template_name )
        => (last'.raised = None /\ last'.ret = last.a.context) ]_vars

\* load has returned a context with a nested mapping that was dumped under
\* the name "gh/demo"
C12_Witness ==
    /\ last.fn = "load"
    /\ last.a.template_name = <<"gh", "demo">>
    /\ last.raised = None
    /\ last.ret = Dict([cookiecutter |-> Dict([a |-> Dict([x |-> Str("v2")])])])

\* what load(replay_dir, template_name) gives on the file system f
Loaded(f, target) ==
    LET out == load(f, target[1], target[2]) IN <<out.raised, out.ret>>

\* the basename of a template name: its last part, without ".json"
Basename(template_name) ==
    LET part == template_name[Len(template_name)]
    IN  CASE part = "demo.json" -> "demo"
          [] part = "empty.json" -> "empty"
          [] OTHER -> part

\* C13 as stated: a dump under the template name B changes what load
\* returns for no template name A other than B.
C13_DumpOfOtherName ==
    [][ last'.fn = "dump"
        => \A target \in ReplayTargets :
              target[2] # last'.a.template_name => Loaded(fs', target) = Loaded(fs, target) ]_vars

\* C13, amended: a dump under the template name B changes what load returns
\* for no replay directory and template name A whose directory or basename
\* differs from B's.
C13_DumpOfOtherBasename ==
    [][ last'.fn = "dump"
        => \A target \in ReplayTargets :
              (target[1] # last'.a.replay_dir \/ Basename(target[2]) # Basename(last'.a.template_name))
              => Loaded(fs', target) = Loaded(fs, target) ]_vars

\* a record was dumped under "other" while the record of "demo" was there
C13_Witness ==
    /\ last.fn = "dump"
    /\ last.raised = None
    /\ last.a.replay_dir = ReplayDir
    /\ last.a.template_name = <<"other">>
    /\ Loaded(fs, <<ReplayDir, <<"demo">>>>)[1] = None
    /\ Loaded(fs, <<ReplayDir, <<"demo">>>>)[2] # last.a.context

\* C14: load raises OSError when the replay file of the template name does
\* not exist and ValueError when the file holds an empty context; it
\* returns no context then, and it leaves the file system as it was.
C14_LoadFailures ==
    [][ last'.fn = "load"
        => LET replay_file == get_file_name(last'.a.replay_dir, last'.a.template_name)
           IN  /\ ~exists(fs, replay_file)
                  => (last'.raised = "OSError" /\ last'.ret = <<>> /\ fs' = fs)
               /\ (isfile(fs, replay_file) /\ fs[replay_file].c = JsonDump(Dict(<<>>)))
                  => (last'.raised = "ValueError" /\ last'.ret = <<>> /\ fs' = fs) ]_vars

\* load has refused the empty record, with other records in the directory
C14_Witness ==
    /\ last.fn = "load"
    /\ last.a.template_name = <<"empty">>
    /\ last.raised = "ValueError"
    /\ isfile(fs, ReplayDir \o <<"demo.json">>)

\* the keys of the definition files that begin with "_"
PrivateKeys == {"_private", "_template"}
\* a template text without an expression
LiteralText(text) == \A i \in 1..Len(text) : text[i].t = "lit"
\* a definition whose scalars and options are literal texts
LiteralDefinition(d) ==
    \A i \in 1..Len(d) :
        d[i].key \notin PrivateKeys =>
            /\ d[i].val.k = "str" => LiteralText(d[i].val.v)
            /\ d[i].val.k = "list" =>
                  \A j \in 1..Len(d[i].val.v) : LiteralText(d[i].val.v[j].v)

\* C15: with no_input true prompt_for_config asks nothing and, whatever the
\* user would answer, yields the first option of every list and the default
\* of every scalar, boolean and mapping (here for definition files whose
\* texts are literal, so that a text renders to itself).
C15_NoInputAsksNothing ==
    ( /\ last.fn = "prompt_for_config"
      /\ last.a.no_input
      /\ LiteralDefinition(last.a.definition) )
    => /\ last.raised = None
       /\ last.ev = <<>>
       /\ \A i \in 1..Len(last.a.definition) :
            LET raw == last.a.definition[i].val
            IN  last.ret[i].val = IF raw.k = "list" /\ last.a.definition[i].key \notin PrivateKeys
                                  THEN raw.v[1] ELSE raw

\* C16: with the definition file {"project_name": "Peanut Butter",
\* "repo_name": "{{cookiecutter.project_name.lower()}}"} and no_input, the
\* context prompt_for_config returns has repo_name = "peanut butter".
C16_LaterVariableSeesEarlier ==
    ( /\ last.fn = "prompt_for_config"
      /\ last.a.no_input
      /\ last.a.definition = <<Entry("project_name", PStr(<<Lit("Peanut Butter")>>)),
                               Entry("repo_name", PStr(<<Lower("project_name")>>))>> )
    => /\ last.raised = None
       /\ PGet(last.ret, "repo_name") = PStr(<<Lit("peanut butter")>>)

\* C17: whatever the mode and however the pass ends, every key that begins
\* with "_" has the value it had before, was not prompted for, and is not
\* the key an error names.
C17_PrivateKeysUntouched ==
    last.fn = "prompt_for_config"
    => \A i \in 1..Len(last.a.definition) :
          last.a.definition[i].key \in PrivateKeys
          => /\ last.ret[i] = last.a.definition[i]
             /\ \A j \in 1..Len(last.ev) : last.ev[j] # <<"ask", last.a.definition[i].key>>
             /\ last.arg # <<last.a.definition[i].key>>

\* an interactive pass that prompted and returned, over a private key whose
\* text references an undefined variable
C17_Witness ==
    /\ last.fn = "prompt_for_config"
    /\ ~last.a.no_input
    /\ last.raised = None
    /\ last.ev # <<>>
    /\ \E i \in 1..Len(last.a.definition) :
          /\ last.a.definition[i] = Entry("_private", PStr(<<Lit("x"), Var("missing")>>))
          /\ last.ret[i] = last.a.definition[i]
          /\ i < Len(last.a.definition)

\* the exception rendering the value raw raises: of the text of a scalar,
\* or of the first option of a list that fails
RenderFailure(raw, d) ==
    IF raw.k = "str" THEN render_variable(raw, d).raised
    ELSE IF raw.k = "list" THEN
        LET failed == { j \in 1..Len(raw.v) : render_variable(raw.v[j], d).raised # None }
        IN  IF failed = {} THEN None
            ELSE render_variable(raw.v[CHOOSE j \in failed : \A k \in failed : j <= k], d).raised
    ELSE None
\* the positions of the variables whose rendering fails
Failing(d) ==
    { i \in 1..Len(d) : d[i].key \notin PrivateKeys /\ RenderFailure(d[i].val, d) # None }
\* no variable after the i-th was prompted for or resolved
StoppedAt(l, i) ==
    /\ \A j \in (i + 1)..Len(l.a.definition) :
          /\ l.ret[j] = l.a.definition[j]
          /\ \A k \in 1..Len(l.ev) : l.ev[k] # <<"ask", l.a.definition[j].key>>
    /\ l.ret[i] = l.a.definition[i]

\* C18 as stated: when rendering a variable fails, the pass ends with
\* UndefinedVariableInTemplate naming the first such key, and no variable
\* after it was prompted for or resolved.
C18_RenderFailureIsUndefinedVariable ==
    (last.fn = "prompt_for_config" /\ Failing(last.a.definition) # {})
    => LET i == CHOOSE i \in Failing(last.a.definition) :
                    \A j \in Failing(last.a.definition) : i <= j
       IN  /\ last.raised = "UndefinedVariableInTemplate"
           /\ last.arg = <<last.a.definition[i].key>>
           /\ StoppedAt(last, i)

\* C18, amended: when rendering a variable fails on an undefined variable,
\* the pass ends with UndefinedVariableInTemplate naming the first such
\* key; when it fails on the syntax of the template, the pass ends with
\* that TemplateSyntaxError; either way no variable after the key was
\* prompted for or resolved.
C18_RenderFailureStopsThePass ==
    (last.fn = "prompt_for_config" /\ Failing(last.a.definition) # {})
    => LET i == CHOOSE i \in Failing(last.a.definition) :
                    \A j \in Failing(last.a.definition) : i <= j
           failure == RenderFailure(last.a.definition[i].val, last.a.definition)
       IN  /\ failure = "UndefinedError"
              => (last.raised = "UndefinedVariableInTemplate"
                  /\ last.arg = <<last.a.definition[i].key>>)
           /\ failure = "TemplateSyntaxError" => last.raised = "TemplateSyntaxError"
           /\ StoppedAt(last, i)

\* an interactive pass that prompted for the first variable, failed on an
\* option of the second, and left the third as it was
C18_Witness ==
    /\ last.fn = "prompt_for_config"
    /\ ~last.a.no_input
    /\ Len(last.a.definition) = 3
    /\ last.a.definition[1].key = "use_ci"
    /\ last.a.definition[2].key = "flavours"
    /\ last.a.definition[3].key = "license"
    /\ last.ev = <<<<"ask", "use_ci">>>>
    /\ last.raised = "UndefinedVariableInTemplate"
    /\ last.arg = <<"flavours">>
    /\ last.ret[3] = last.a.definition[3]

\* the functions that change the working directory while they run
ChangesDirectory ==
    {"generate_files", "run_hook", "run_hook_from_repo_dir", "run_pre_prompt_hook"}

\* C19: whichever way generate_files, run_hook, run_hook_from_repo_dir or
\* run_pre_prompt_hook ends, by returning or by raising, the working
\* directory after the call is the working directory before it
C19_WorkingDirectoryRestored ==
    [][last'.fn \in ChangesDirectory => cwd' = cwd]_vars

\* run_hook_from_repo_dir went into the template directory and then into
\* the project directory, the hook script written there could not be
\* executed, and the working directory is back where the call started
C19_Witness ==
    /\ last.fn = "run_hook_from_repo_dir"
    /\ last.raised = "FailedHookException"
    /\ last.arg = <<"error">>
    /\ At(last.ev, <<"chdir", last.a.repo_dir>>) # {}
    /\ At(last.ev, <<"chdir", ProjectDir>>) # {}
    /\ \E i \in At(last.ev, <<"chdir", ProjectDir>>) :
           \E j \in At(last.ev, <<"write", TmpDir \o <<"hook.sh">>>>) : i < j
    /\ cwd = <<"home">>

\* C20: when run_script_with_context ends, the temporary directory it made
\* for the rendered script is gone and was removed after the script was
\* started or refused, whether the script exited 0, exited with another
\* status or could not be executed
C20_ScratchDirRemoved ==
    last.fn = "run_script_with_context" =>
        /\ ~exists(fs, TmpDir)
        /\ \A i \in At(last.ev, <<"mkdir", TmpDir>>) :
               \E j \in At(last.ev, <<"rmtree", TmpDir>>) : i < j /\ j = Len(last.ev)

\* the rendered script was empty and could not be executed: the call raised
\* and its temporary directory, made and written to, was removed
C20_Witness ==
    /\ last.fn = "run_script_with_context"
    /\ last.a.script_path = <<"bare", "empty.sh">>
    /\ last.raised = "FailedHookException"
    /\ last.arg = <<"empty or invalid script">>
    /\ At(last.ev, <<"mkdir", TmpDir>>) # {}
    /\ At(last.ev, <<"write", TmpDir \o <<"hook.sh">>>>) # {}
    /\ ~exists(fs, TmpDir)

\* the position of the path p in the listing the call had of its directory
ListingIndex(p) ==
    CHOOSE i \in 1..Len(last.a.order[Parent(p)]) : last.a.order[Parent(p)][i] = p[Len(p)]

\* the regular files of directory d whose name without its extension is
\* hook_name
Matching(d, hook_name) ==
    { d \o <<n>> : n \in { m \in Names(fs, d) :
                              /\ isfile(fs, d \o <<m>>)
                              /\ splitext(m)[1] = hook_name } }

\* the first of the paths, all of one directory, in listing order
FirstListed(paths) ==
    { p \in paths : \A q \in paths : ListingIndex(p) <= ListingIndex(q) }

\* the script the specification selects for hook_name in the project
\* directory, as a set of at most one path
Selected(hook_name) ==
    LET hooks_dir == ProjectDir \o <<"hooks">>
    IN  IF Matching(hooks_dir, hook_name) # {}
            THEN FirstListed(Matching(hooks_dir, hook_name))
        ELSE IF exists(fs, ProjectDir \o <<"cookiecutter.json">>)
            THEN FirstListed(Matching(hooks_dir \o <<hook_name>>, hook_name))
        ELSE {}

\* the scripts a call rendered and ran, by its events
ScriptsOf(ev) == { ev[i][2] : i \in { j \in 1..Len(ev) : ev[j][1] = "script" } }

\* C21: one call of run_hook executes at most one script, and find_hook
\* returns, and run_hook executes, the first regular file in listing order
\* of hooks/ and then, only when cookiecutter.json is in the working
\* directory, of hooks/<name>/, whose name without the extension equals the
\* hook's name; a file whose name only extends the hook's name is never
\* selected
C21_FirstExactMatchRuns ==
    /\ last.fn = "find_hook" =>
           /\ last.raised = None
           /\ { last.ret[i] : i \in 1..Len(last.ret) } = Selected(last.a.hook_name)
    /\ last.fn = "run_hook" =>
           /\ ScriptsOf(last.ev) = Selected(last.a.hook_name)
           /\ Cardinality({ i \in 1..Len(last.ev) : last.ev[i][1] = "script" }) <= 1
           /\ Cardinality({ i \in 1..Len(last.ev) : last.ev[i][1] = "run" }) <= 1

\* hooks/ holds pre_gen_project_old.sh, pre_gen_project.sh and
\* pre_gen_project.py, and the per-hook subdirectory another script:
\* run_hook, under a listing that has pre_gen_project_old.sh first and
\* pre_gen_project.py last, ran pre_gen_project.sh and nothing else
C21_Witness ==
    /\ last.fn = "run_hook"
    /\ last.a.hook_name = "pre_gen_project"
    /\ isfile(fs, ProjectDir \o <<"cookiecutter.json">>)
    /\ isfile(fs, ProjectDir \o <<"hooks", "pre_gen_project_old.sh">>)
    /\ isfile(fs, ProjectDir \o <<"hooks", "pre_gen_project.sh">>)
    /\ isfile(fs, ProjectDir \o <<"hooks", "pre_gen_project.py">>)
    /\ isfile(fs, ProjectDir \o <<"hooks", "pre_gen_project", "pre_gen_project.py">>)
    /\ last.a.order[ProjectDir \o <<"hooks">>][1] = "pre_gen_project_old.sh"
    /\ ListingIndex(ProjectDir \o <<"hooks", "pre_gen_project.sh">>)
           < ListingIndex(ProjectDir \o <<"hooks", "pre_gen_project.py">>)
    /\ ScriptsOf(last.ev) = {ProjectDir \o <<"hooks", "pre_gen_project.sh">>}

\* the path that p, a path under directory d, has under directory e
Moved(p, d, e) == e \o SubSeq(p, Len(d) + 1, Len(p))

\* C22: when run_pre_prompt_hook returns, the directory it returns is the
\* temporary directory the pre_prompt script ran in and holds the content
\* of the template, cookiecutter.json included, so that it can be the
\* template root from there on
C22_ReturnsTemplateCopy ==
    (/\ last.fn = "run_pre_prompt_hook"
     /\ last.raised = None
     /\ At(last.ev, <<"run", last.a.repo_dir \o <<"hooks", "pre_prompt.py">>>>) # {}) =>
        /\ isdir(fs, last.ret)
        /\ \A p \in DOMAIN fs :
               IsUnder(p, last.a.repo_dir) =>
                   /\ Moved(p, last.a.repo_dir, last.ret) \in DOMAIN fs
                   /\ fs[Moved(p, last.a.repo_dir, last.ret)] = fs[p]

\* C23: when the pre_prompt script fails, run_pre_prompt_hook raises the
\* failure of the hook, the temporary directory it made is gone, and the
\* template directory is as it was
C23_FailedPrePromptCleansUp ==
    [][(/\ last'.fn = "run_pre_prompt_hook"
        /\ At(last'.ev, <<"run", last'.a.repo_dir \o <<"hooks", "pre_prompt.sh">>>>) # {})
       => /\ last'.raised = "FailedHookException"
          /\ At(last'.ev, <<"mkdir", PrePromptDir>>) # {}
          /\ ~exists(fs', PrePromptDir)
          /\ \A p \in DOMAIN fs \cup DOMAIN fs' :
                 IsUnder(p, last'.a.repo_dir) => p \in DOMAIN fs /\ p \in DOMAIN fs' /\ fs'[p] = fs[p]
      ]_vars

\* the pre_prompt script of tpl/ was started and exited with status 1: the
\* call raised and the temporary directory it made is gone
C23_Witness ==
    /\ last.fn = "run_pre_prompt_hook"
    /\ last.a.repo_dir = <<"tpl">>
    /\ last.raised = "FailedHookException"
    /\ last.arg = <<"exit status", "1">>
    /\ At(last.ev, <<"run", <<"tpl", "hooks", "pre_prompt.sh">>>>) # {}
    /\ At(last.ev, <<"rmtree", PrePromptDir>>) # {}
    /\ ~exists(fs, PrePromptDir)
    /\ isfile(fs, <<"tpl", "hooks", "pre_prompt.sh">>)

\* the directory d holds the variable-definition file at its top level
HasDefinition(d) == isfile(fs, d \o <<"cookiecutter.json">>)

\* the subdirectories of d that hold the variable-definition file and are
\* not hidden, and those of them that have a placeholder for a name
Subdirs(d) ==
    { d \o <<n>> : n \in { m \in Names(fs, d) :
                              /\ isdir(fs, d \o <<m>>)
                              /\ FirstChar(m) # "."
                              /\ HasDefinition(d \o <<m>>) } }
Placeholders(d) == { p \in Subdirs(d) : p[Len(p)] \in DOMAIN TemplatedNames }

\* the template of d by the order of the specification, as a set of at most
\* one path: a placeholder directory comes before the other subdirectories
TemplateByKind(d) ==
    IF HasDefinition(d) THEN {d}
    ELSE IF HasDefinition(d \o <<"_cookiecutter">>) THEN {d \o <<"_cookiecutter">>}
    ELSE IF HasDefinition(d \o <<"cookiecutter">>) THEN {d \o <<"cookiecutter">>}
    ELSE IF Placeholders(d) # {} THEN FirstListed(Placeholders(d))
    ELSE FirstListed(Subdirs(d))

\* the template of d when the placeholder directories have no rank of their
\* own among the subdirectories
TemplateByListing(d) ==
    IF HasDefinition(d) THEN {d}
    ELSE IF HasDefinition(d \o <<"_cookiecutter">>) THEN {d \o <<"_cookiecutter">>}
    ELSE IF HasDefinition(d \o <<"cookiecutter">>) THEN {d \o <<"cookiecutter">>}
    ELSE FirstListed(Subdirs(d))

\* find_template ended as the choice says: it returned the one path of it,
\* or raised NonTemplatedInputDirException when there is none
FoundAs(choice) ==
    IF choice = {} THEN last.raised = "NonTemplatedInputDirException"
    ELSE last.raised = None /\ choice = {last.ret}

\* C24 as stated: find_template on an existing directory returns the first
\* of the root, _cookiecutter/, cookiecutter/, a placeholder directory, the
\* first subdirectory in listing order that is not hidden, that holds
\* cookiecutter.json, and raises NonTemplatedInputDirException when none does
C24_FirstCandidateByKind ==
    (last.fn = "find_template" /\ isdir(fs, last.a.repo_dir)) =>
        FoundAs(TemplateByKind(last.a.repo_dir))

\* C24, amended: find_template on an existing directory returns the first
\* of the root, _cookiecutter/, cookiecutter/ and then the subdirectories
\* that are not hidden, placeholder directories among them, in listing
\* order, that holds cookiecutter.json; a hidden subdirectory is never
\* returned by the scan, and NonTemplatedInputDirException is raised when no
\* candidate holds the file
C24_FirstCandidateByListing ==
    (last.fn = "find_template" /\ isdir(fs, last.a.repo_dir)) =>
        /\ FoundAs(TemplateByListing(last.a.repo_dir))
        /\ last.raised = None => FirstChar(last.ret[Len(last.ret)]) # "."

\* the repository holds cookiecutter.json in the hidden .git/, in app/ and
\* in the placeholder directory, and demo/ without it; the listing has
\* .git first, then demo, app and the placeholder directory, and
\* find_template returned app
C24_Witness ==
    /\ last.fn = "find_template"
    /\ last.a.repo_dir = RepoDir
    /\ last.a.order[RepoDir] = <<".git", "demo", "app", "{{cookiecutter.repo_name}}">>
    /\ HasDefinition(RepoDir \o <<".git">>)
    /\ HasDefinition(RepoDir \o <<"app">>)
    /\ HasDefinition(RepoDir \o <<"{{cookiecutter.repo_name}}">>)
    /\ isdir(fs, RepoDir \o <<"demo">>)
    /\ last.ret = RepoDir \o <<"app">>

\* the error kinds of the taxonomy, by the exceptions that stand for them
Taxonomy ==
    { "ContextDecodingException", "OutputDirExistsException", "UndefinedVariableInTemplate",
      "TemplateSyntaxError", "FailedHookException", "RepositoryNotFound",
      "RepositoryCloneFailed", "VCSNotInstalled", "InvalidZipRepository",
      "NonTemplatedInputDirException" }

\* the kinds of the taxonomy that main has no except clause for
Unhandled == {"TemplateSyntaxError", "VCSNotInstalled", "NonTemplatedInputDirException"}

\* the lines the last call printed
Echoed == [i \in 1..Len(SelectSeq(last.ev, LAMBDA e : e[1] = "echo")) |->
              SelectSeq(last.ev, LAMBDA e : e[1] = "echo")[i][2]]

\* main called the pipeline, which raised an error of the set kinds
PipelineRaised(kinds) ==
    /\ last.fn = "main"
    /\ At(last.ev, <<"cookiecutter", last.a.template>>) # {}
    /\ last.a.pipeline \in kinds

\* main printed the one line that reports the error and exited with a
\* status that is not 0
ReportedAndExited ==
    /\ last.raised = "SystemExit"
    /\ last.arg # <<0>>
    /\ Echoed = IF last.a.pipeline = "UndefinedVariableInTemplate"
                THEN <<<<"msg", " is undefined">>>> ELSE <<<<"Error: ", "msg">>>>

\* C25 as stated: for every error of the taxonomy that the pipeline raises,
\* main prints one line, "Error: <message>" or "<message> is undefined"
\* for an undefined variable, and exits with a status that is not 0
C25_EveryErrorReported ==
    PipelineRaised(Taxonomy) => ReportedAndExited

\* C25, amended: main prints the line and exits with a status that is not
\* 0 for every error of the taxonomy but three; a template syntax error, a
\* version control system that is not installed and a directory with no
\* template leave main as the exception the pipeline raised, with nothing
\* printed
C25_HandledErrorsReported ==
    /\ PipelineRaised(Taxonomy \ Unhandled) => ReportedAndExited
    /\ PipelineRaised(Unhandled) =>
           /\ last.raised = last.a.pipeline
           /\ Echoed = <<>>

\* the pipeline failed to clone the repository: main printed the error and
\* exited with status 1
C25_Witness ==
    /\ PipelineRaised({"RepositoryCloneFailed"})
    /\ last.raised = "SystemExit"
    /\ last.arg = <<1>>
    /\ Echoed = <<<<"Error: ", "msg">>>>

\* main ended before the pipeline was called, with an error printed and
\* exit status 1
Rejected ==
    /\ last.raised = "SystemExit"
    /\ last.arg = <<1>>
    /\ Len(Echoed) = 1
    /\ Echoed[1][1] \in { "Error: --no-input and --replay cannot be used together.",
                          "Error: --replay and extra context cannot be used together.",
                          "Error: Missing argument \"TEMPLATE\".",
                          "Error: Cannot list installed templates." }
    /\ \A i \in 1..Len(last.ev) : last.ev[i][1] # "cookiecutter"
    /\ fs = FixtureFs

\* main was given --replay with --no-input, or --replay with extra context
ReplayConflict ==
    /\ last.fn = "main"
    /\ last.a.replay
    /\ last.a.no_input \/ last.a.extra_context # <<>>

\* C26 as stated: given --replay with --no-input, or --replay with extra
\* context, main prints an error and exits with status 1 before the
\* pipeline is called
C26_ReplayConflictRejected ==
    ReplayConflict => Rejected

\* main got to neither of the two checks of --replay: it printed neither
\* of their errors
ReplayNotExamined ==
    \A i \in 1..Len(Echoed) :
        Echoed[i][1] \notin { "Error: --no-input and --replay cannot be used together.",
                              "Error: --replay and extra context cannot be used together." }

\* C26, amended: the same, for the runs that do not ask for the list of
\* installed templates; with --list-installed the call of
\* list_installed_templates does not return, so that main does not come to
\* look at --replay, and in no case is the pipeline called or anything
\* written
C26_ReplayConflictRejectedUnlessListing ==
    /\ (ReplayConflict /\ ~last.a.list_installed) => Rejected
    /\ (ReplayConflict /\ last.a.list_installed) =>
           /\ last.raised # None
           /\ ReplayNotExamined
    /\ ReplayConflict => /\ \A i \in 1..Len(last.ev) : last.ev[i][1] # "cookiecutter"
                         /\ fs = FixtureFs

\* main was given a template, --replay and extra context, and a pipeline
\* that would have returned: it printed the error and exited with status 1
C26_Witness ==
    /\ ReplayConflict
    /\ last.a.template = <<"tpl">>
    /\ ~last.a.no_input
    /\ ~last.a.list_installed
    /\ last.a.pipeline = None
    /\ Echoed = <<<<"Error: --replay and extra context cannot be used together.">>>>
    /\ last.arg = <<1>>

\* the call asked the user nothing
AskedNothing(ev) == \A i \in 1..Len(ev) : ev[i][1] # "ask"

\* in ev an event of kind first comes, and before every event of kind then
Before(ev, first, then) ==
    /\ \E i \in 1..Len(ev) : ev[i][1] = first
    /\ \A j \in 1..Len(ev) :
           ev[j][1] = then => \E i \in 1..(j - 1) : ev[i][1] = first

\* the directory clone puts the repository of the URL in, for a URL whose
\* repository type is known
CloneTarget(repo_url) == CacheDir \o RepoName(identify_repo(repo_url)[2])

\* clone is called with no_input on a repository that is in the cache, of a
\* known type whose version control system is installed
CloneRefresh ==
    /\ last'.fn = "clone"
    /\ last'.a.no_input
    /\ identify_repo(last'.a.repo_url) # <<>>
    /\ identify_repo(last'.a.repo_url)[1] \in last'.a.installed
    /\ exists(fs, CloneTarget(last'.a.repo_url))

\* unzip is called with no_input on a URL whose archive is in the cache
UnzipRefresh ==
    /\ last'.fn = "unzip"
    /\ last'.a.no_input
    /\ last'.a.is_url
    /\ isfile(fs, CacheDir \o <<"demo.zip">>)

TemplateOf(d) == PGet(d, "_template")

\* the value is a mapping that has options, each of which is a path
MapsToPaths(val) ==
    /\ val.k = "dict"
    /\ val.v # <<>>
    /\ \A i \in 1..Len(val.v) : val.v[i].val.k = "str"

\* d and e are the same context but for the value of _template
SameButTemplate(d, e) ==
    /\ Len(d) = Len(e)
    /\ \A i \in 1..Len(d) :
           /\ d[i].key = e[i].key
           /\ d[i].key # "_template" => d[i].val = e[i].val

\* C28: choose_nested_template replaces a _template that maps option names
\* to paths by the path chosen, which is the path of the first option when
\* no_input is given and else the path of the option the user chose, and
\* returns the rest of the context as it was; it returns the context as it
\* was when _template is absent or is not a mapping
C28_NestedTemplateChosen ==
    last.fn = "choose_nested_template" =>
        /\ ("_template" \in PKeys(last.a.context) /\ MapsToPaths(TemplateOf(last.a.context))) =>
               /\ last.raised = None
               /\ SameButTemplate(last.a.context, last.ret)
               /\ TemplateOf(last.ret).k = "str"
               /\ \E i \in 1..Len(TemplateOf(last.a.context).v) :
                      TemplateOf(last.ret) = TemplateOf(last.a.context).v[i].val
               /\ last.a.no_input =>
                      /\ TemplateOf(last.ret) = TemplateOf(last.a.context).v[1].val
                      /\ last.ev = <<>>
               /\ (~last.a.no_input /\ last.a.answer = "other") =>
                      TemplateOf(last.ret) =
                          TemplateOf(last.a.context).v[Len(TemplateOf(last.a.context).v)].val
        /\ ("_template" \notin PKeys(last.a.context) \/ TemplateOf(last.a.context).k # "dict") =>
               /\ last.raised = None
               /\ last.ret = last.a.context
               /\ last.ev = <<>>

\* _template maps "lib" and then "app" to their paths in a context that
\* has other variables, no_input is given and the user would have chosen
\* the last option: the call put "./lib", the path of the first option, in
\* the place of the mapping
C28_Witness ==
    /\ last.fn = "choose_nested_template"
    /\ last.a.no_input
    /\ last.a.answer = "other"
    /\ Len(last.a.context) = 3
    /\ last.a.context[1].key = "_template"
    /\ Len(last.a.context[1].val.v) = 2
    /\ last.a.context[1].val.v[2].val = PStr(<<Lit("./app")>>)
    /\ last.ret[1].val = PStr(<<Lit("./lib")>>)

\* the path generate_file writes infile to, for a name that renders
Destination(infile, context) == ProjectDir \o RenderedPath(infile, context)

\* C29: generate_file with skip_if_file_exists, on a file whose destination
\* exists, returns without an error and writes nothing: the file that is
\* there, and the rest of the file system with it, is as it was
C29_SkipLeavesExistingFile ==
    [][(/\ last'.fn = "generate_file"
        /\ last'.a.skip_if_file_exists
        /\ RenderError(NameText(last'.a.infile), last'.a.context) = None
        /\ exists(fs, Destination(last'.a.infile, last'.a.context)))
       => /\ last'.raised = None
          /\ last'.ret = <<>>
          /\ last'.ev = <<>>
          /\ fs' = fs
      ]_vars

\* README.md of the project was written for the author "bob"; a call for
\* the author "ann" with skip_if_file_exists returned and the file is still
\* the one written for "bob"
C29_Witness ==
    /\ last.fn = "generate_file"
    /\ last.a.skip_if_file_exists
    /\ last.a.infile = <<"README.md">>
    /\ last.a.context = CtxA
    /\ last.raised = None
    /\ last.ret = <<>>
    /\ isfile(fs, ProjectDir \o <<"README.md">>)
    /\ fs[ProjectDir \o <<"README.md">>].c = Rendered(ReadmeText, CtxB)
    /\ Rendered(ReadmeText, CtxB) # Rendered(ReadmeText, CtxA)

\* the path has a component, the name of the file or of a directory above
\* it, that starts with "." or "_"
Hidden(p) == \E i \in 1..Len(p) : FirstChar(p[i]) \in {".", "_"}

\* the files of the template directory d that are hidden
HiddenFiles(d) == { p \in DOMAIN FixtureFs : IsUnder(p, d) /\ p # d /\ Hidden(Moved(p, d, <<>>)) }

\* the template a step was given, for the steps that are given one
TemplateGiven ==
    IF last.fn = "generate_files" THEN last.a.repo_dir ELSE last.a.template_dir

\* C30: the walk of generate_files over a template writes no file, and
\* makes no directory, of the project whose path in the template has a
\* component that starts with "." or "_", and the project directory holds
\* none after it
C30_HiddenFilesNotGenerated ==
    last.fn \in {"generate_files", "generate_files: walk"} =>
        /\ \A i \in 1..Len(last.ev) :
               (last.ev[i][1] \in {"write", "mkdir"} /\ IsUnder(last.ev[i][2], ProjectDir)) =>
                   ~Hidden(Moved(last.ev[i][2], ProjectDir, <<>>))
        /\ \A p \in HiddenFiles(TemplateGiven) :
               ~exists(fs, Moved(p, TemplateGiven, ProjectDir))

\* the walk over mixed/ ended without an error and wrote cookiecutter.json
\* and demo2/README.md but none of the hidden files next to them
C30_Witness ==
    /\ last.fn = "generate_files: walk"
    /\ last.a.template_dir = <<"mixed">>
    /\ last.raised = None
    /\ At(last.ev, <<"write", ProjectDir \o <<"demo2", "README.md">>>>) # {}
    /\ isfile(fs, ProjectDir \o <<"demo2", "README.md">>)
    /\ isfile(fs, ProjectDir \o <<"cookiecutter.json">>)
    /\ ~exists(fs, ProjectDir \o <<"demo2", "_notes.md">>)
    /\ ~exists(fs, ProjectDir \o <<"demo2", ".git">>)
    /\ ~exists(fs, ProjectDir \o <<"_build">>)
    /\ ~exists(fs, ProjectDir \o <<".gitignore">>)
    /\ HiddenFiles(<<"mixed">>) # {}

\* the patterns of the copy-without-render list of the context
CopyPatterns(context) ==
    IF "_copy_without_render" \in DOMAIN context["cookiecutter"]
    THEN { context["cookiecutter"]["_copy_without_render"][i] :
             i \in 1..Len(context["cookiecutter"]["_copy_without_render"]) }
    ELSE {}

\* the template the step worked in: generate_file is called in tpl/
CopyTemplate == IF last.fn = "generate_file" THEN <<"tpl">> ELSE last.a.template_dir

\* the content that the file presented as infile has in the template
SourceContent(infile) == FixtureFs[normpath(CopyTemplate \o infile)].c

\* the file of the template that is presented as infile is to be copied as
\* it is: its content is binary, or infile matches a pattern of the context
Verbatim(infile, context) ==
    \/ \E i \in 1..Len(SourceContent(infile)) : SourceContent(infile)[i].t = "bin"
    \/ \E pattern \in CopyPatterns(context) : fnmatch(infile, pattern)

\* where the file presented as infile goes in the project
CopyDestination(infile, context) == normpath(ProjectDir \o RenderedPath(infile, context))

\* the step wrote the file presented as infile, and the file is still there
WroteFrom(infile, context) ==
    /\ At(last.ev, <<"write", CopyDestination(infile, context)>>) # {}
    /\ isfile(fs, CopyDestination(infile, context))

\* the step ended with an error of the renderer on the file presented as infile
RendererFailedOn(infile, context) ==
    \/ last.raised = "TemplateSyntaxError" /\ last.arg = infile
    \/ last.raised = "UndefinedVariableInTemplate" /\ last.arg = RenderedPath(infile, context)

\* the paths the step presented to generate_file
Presented ==
    IF last.fn = "generate_file" THEN {last.a.infile}
    ELSE { <<".">> \o last.a.walked[i] : i \in 1..Len(last.a.walked) }

\* C31: a file that is binary, or whose path as generate_file is given it
\* matches a pattern of the copy-without-render list, is written with the
\* content of the source, variables and all, and the renderer raises
\* nothing on it
C31_CopiedWithoutRendering ==
    last.fn \in {"generate_file", "generate_files: walk"} =>
        \A infile \in Presented :
            Verbatim(infile, last.a.context) =>
                /\ ~RendererFailedOn(infile, last.a.context)
                /\ WroteFrom(infile, last.a.context) =>
                       fs[CopyDestination(infile, last.a.context)].c = SourceContent(infile)

\* the walk over raw/ ended without an error and copied undef.txt, which
\* names an undefined variable, and the binary logo.png, with the content
\* they have in the template
C31_Witness ==
    /\ last.fn = "generate_files: walk"
    /\ last.raised = None
    /\ Verbatim(<<".", "undef.txt">>, last.a.context)
    /\ WroteFrom(<<".", "undef.txt">>, last.a.context)
    /\ fs[ProjectDir \o <<"undef.txt">>].c = UndefText
    /\ WroteFrom(<<".", "logo.png">>, last.a.context)
    /\ fs[ProjectDir \o <<"logo.png">>].c = PngBytes

\* C32: generate_file, the walk of generate_files and the hook runner
\* leave the context they are given as it was: no key added, removed or
\* changed, whether the call returns or raises
C32_ContextReadOnly ==
    last.fn \in {"generate_file", "generate_files: walk", "run_script_with_context"} =>
        last.a.after = last.a.context

\* clone is called without no_input on a repository that is in the cache,
\* of a known type whose version control system is installed, and the user
\* declines the deletion
CloneDeclined ==
    /\ last'.fn = "clone"
    /\ ~last'.a.no_input
    /\ identify_repo(last'.a.repo_url) # <<>>
    /\ identify_repo(last'.a.repo_url)[1] \in last'.a.installed
    /\ exists(fs, CloneTarget(last'.a.repo_url))
    /\ ~last'.a.ok_to_delete

\* the call started no command and removed nothing
RanNothing(ev) == \A i \in 1..Len(ev) : ev[i][1] \notin {"clone", "checkout", "rm", "rmtree"}

\* C33: when the repository is in the cache, no_input is false and the
\* user declines the deletion, clone runs no clone and no checkout and
\* leaves the directory as it is; it returns the directory when the user
\* accepts to re-use it, and exits when the user declines that too
C33_DeclinedDeletionKeepsCache ==
    [][ CloneDeclined =>
            /\ RanNothing(last'.ev)
            /\ fs' = fs
            /\ IF last'.a.ok_to_reuse
               THEN last'.raised = None /\ last'.ret = CloneTarget(last'.a.repo_url)
               ELSE last'.raised = "SystemExit"
      ]_vars

\* clone of https://github.com/ann/demo.git found cache/demo, asked the two
\* questions, was told to keep and re-use, and returned cache/demo, which
\* holds the earlier copy
C33_Witness ==
    /\ last.fn = "clone"
    /\ ~last.a.no_input
    /\ ~last.a.ok_to_delete
    /\ last.a.ok_to_reuse
    /\ last.raised = None
    /\ last.ret = CacheDir \o <<"demo">>
    /\ last.ev = << <<"ask", "delete", CacheDir \o <<"demo">>>>,
                    <<"ask", "reuse", CacheDir \o <<"demo">>>> >>
    /\ fs[CacheDir \o <<"demo", "cookiecutter.json">>].c = <<Lit("stale")>>

\* C34: the path unzip returns is a directory, and the directory holds
\* the file cookiecutter.json at its top level, also when the archive that
\* was downloaded before is re-used
C34_ReturnsTemplateDir ==
    (last.fn = "unzip" /\ last.raised = None) =>
        /\ isdir(fs, last.ret)
        /\ isfile(fs, last.ret \o <<"cookiecutter.json">>)

\* the archive unzip went on to unpack, for a call that made the
\* temporary directory: the one the server answered with, or the one of
\* the user
Unpacked == IF last.a.is_url THEN Archives[last.a.served] ELSE Archives["locked"]

\* how many times the call asked for the password
PasswordAsked == Cardinality({ i \in 1..Len(last.ev) : last.ev[i][1] = "ask" /\ last.ev[i][2] = "password" })

\* unzip went on to unpack an archive that is protected by a password
UnpackedProtected ==
    /\ last.fn = "unzip"
    /\ \E i \in 1..Len(last.ev) : last.ev[i][1] = "mkdtemp"
    /\ Unpacked.pwd # None

\* C35: unzip of a protected archive with no_input and without the
\* password never asks and raises InvalidZipRepository; without no_input it
\* asks at most once, and raises InvalidZipRepository when the answer is
\* not the password; a call that raises returns nothing
C35_PasswordProtocol ==
    UnpackedProtected =>
        /\ (last.a.no_input /\ last.a.password # Unpacked.pwd) =>
               PasswordAsked = 0 /\ last.raised = "InvalidZipRepository"
        /\ PasswordAsked <= 1
        /\ (PasswordAsked = 1 /\ last.a.answer # Unpacked.pwd) =>
               last.raised = "InvalidZipRepository"
        /\ last.raised # None => last.ret = <<>>

\* unzip of the archive of the user, which is protected, without a
\* password: the user was asked once, answered with a wrong password, and
\* the call raised InvalidZipRepository
C35_Witness ==
    /\ UnpackedProtected
    /\ ~last.a.is_url
    /\ ~last.a.no_input
    /\ last.a.password = None
    /\ last.a.answer # Unpacked.pwd
    /\ PasswordAsked = 1
    /\ last.raised = "InvalidZipRepository"
    /\ last.arg = <<"invalid password">>

====
